---- MODULE Spec2Model ----
(***************************************************************************)
(* Model of OBMinimize (src/src/obminimize.cpp): steepest descent and      *)
(* conjugate gradients driving the two line searches over an OBFunction.   *)
(*                                                                         *)
(* A C++ double is modelled as a decimal floating-point number with a      *)
(* four digit mantissa and an unbounded exponent, plus infinity and NaN:   *)
(*   [k |-> "fin", m |-> mantissa, e |-> exponent]  is  m * 10^e           *)
(* with m = 0 or 1000 <= |m| <= 9999.  Results are truncated toward zero.  *)
(* An Eigen::Vector3d is modelled by one Cartesian component (the other    *)
(* two are held at zero), so squaredNorm() is v*v and norm() is |v|.       *)
(***************************************************************************)
EXTENDS Integers, Sequences, FiniteSets, TLC

(***************************************************************************)
(* double arithmetic                                                       *)
(***************************************************************************)
Fin(m, e) == [k |-> "fin", m |-> m, e |-> e]
Zero == Fin(0, 0)
NaN == [k |-> "nan", m |-> 0, e |-> 0]
Inf(s) == [k |-> "inf", m |-> s, e |-> 0]

RECURSIVE NormPos(_, _)
NormPos(m, e) ==
  IF m >= 10000 THEN NormPos(m \div 10, e + 1)
  ELSE IF m < 1000 THEN NormPos(m * 10, e - 1)
  ELSE Fin(m, e)

FNeg(a) == [a EXCEPT !.m = -a.m]

\* the double nearest (by truncation) to m * 10^e
Mk(m, e) ==
  IF m = 0 THEN Zero
  ELSE IF m > 0 THEN NormPos(m, e)
  ELSE FNeg(NormPos(-m, e))

RECURSIVE Pow10(_)
Pow10(n) == IF n = 0 THEN 1 ELSE 10 * Pow10(n - 1)

Sgn(m) == IF m > 0 THEN 1 ELSE IF m < 0 THEN -1 ELSE 0
IAbs(m) == IF m < 0 THEN -m ELSE m

isfinite(a) == a.k = "fin"

FAdd(a, b) ==
  IF a.k = "nan" \/ b.k = "nan" THEN NaN
  ELSE IF a.k = "inf" /\ b.k = "inf" THEN (IF a.m = b.m THEN a ELSE NaN)
  ELSE IF a.k = "inf" THEN a
  ELSE IF b.k = "inf" THEN b
  ELSE IF a.m = 0 THEN b
  ELSE IF b.m = 0 THEN a
  ELSE LET hi == IF a.e >= b.e THEN a ELSE b
           lo == IF a.e >= b.e THEN b ELSE a
           diff == hi.e - lo.e
       IN IF diff > 4 THEN hi
          ELSE Mk(hi.m * Pow10(diff) + lo.m, lo.e)

FSub(a, b) == FAdd(a, FNeg(b))

FMul(a, b) ==
  IF a.k = "nan" \/ b.k = "nan" THEN NaN
  ELSE IF a.k = "inf" \/ b.k = "inf"
       THEN (IF a.m = 0 \/ b.m = 0 THEN NaN ELSE Inf(Sgn(a.m) * Sgn(b.m)))
  ELSE Mk(a.m * b.m, a.e + b.e)

FDiv(a, b) ==
  IF a.k = "nan" \/ b.k = "nan" THEN NaN
  ELSE IF a.k = "inf" THEN (IF b.k = "inf" THEN NaN
                            ELSE Inf(a.m * (IF b.m < 0 THEN -1 ELSE 1)))
  ELSE IF b.k = "inf" THEN Zero
  ELSE IF b.m = 0 THEN (IF a.m = 0 THEN NaN ELSE Inf(Sgn(a.m)))
  ELSE IF a.m = 0 THEN Zero
  ELSE LET q == (IAbs(a.m) * 100000) \div IAbs(b.m)
       IN Mk(Sgn(a.m) * Sgn(b.m) * q, a.e - b.e - 5)

fabs(a) == [a EXCEPT !.m = IAbs(a.m)]

\* a < b on doubles (false whenever an operand is NaN)
FLt(a, b) ==
  IF a.k = "nan" \/ b.k = "nan" THEN FALSE
  ELSE IF a.k = "inf" \/ b.k = "inf"
       THEN (IF a.k = "inf" /\ b.k = "inf" THEN a.m < b.m
             ELSE IF a.k = "inf" THEN a.m < 0
             ELSE b.m > 0)
  ELSE FSub(a, b).m < 0

FGt(a, b) == FLt(b, a)
FLe(a, b) == a.k # "nan" /\ b.k # "nan" /\ ~FLt(b, a)

RECURSIVE ISqrtIn(_, _, _)
ISqrtIn(x, lo, hi) ==
  IF lo >= hi THEN lo
  ELSE LET mid == (lo + hi + 1) \div 2
       IN IF mid * mid <= x THEN ISqrtIn(x, mid, hi) ELSE ISqrtIn(x, lo, mid - 1)

sqrt(a) ==
  IF a.k = "nan" THEN NaN
  ELSE IF a.k = "inf" THEN (IF a.m > 0 THEN a ELSE NaN)
  ELSE IF a.m < 0 THEN NaN
  ELSE IF a.m = 0 THEN Zero
  ELSE LET odd == (a.e % 2) = 1
           m2 == IF odd THEN a.m * 10 ELSE a.m
           e2 == IF odd THEN a.e - 1 ELSE a.e
       IN Mk(ISqrtIn(m2 * 10000, 0, 31622), (e2 - 4) \div 2)

\* openbabel/obutil.h: IsNear(a, b, epsilon) and IsNearZero(a, epsilon = 2e-6)
IsNear(a, b, epsilon) == FLt(fabs(FSub(a, b)), epsilon)
IsNearZero(a) == FLt(fabs(a), Mk(2, -6))

(***************************************************************************)
(* Bounds and input sets                                                   *)
(***************************************************************************)
MaxAtoms == 2
MaxSteps == 2

\* energies and per-atom gradients the OBFunction may return.  NearEnergy is
\* within the tolerance of LineSearch (1e-3) of another energy; it is offered
\* to runs that use LineSearch, whose convergence test it exercises.
NearEnergy == Mk(5005, -4)
EnergySet == {Mk(3, -1), Mk(5, -1), NearEnergy}
Energies(linesearch) ==
  IF linesearch = "Simple" THEN EnergySet ELSE EnergySet \ {NearEnergy}
GradSet == {Zero, Mk(1, -6), Mk(2, 0)}
EconvSet == {Zero, Mk(1, -6)}
LineSearchTypes == {"Simple", "Newton2Num"}

(***************************************************************************)
(* State                                                                   *)
(***************************************************************************)
VARIABLES
  pos,    \* m_function->GetPositions()
  grad,   \* m_function->GetGradients()
  value,  \* m_function->GetValue()
  efun,   \* the energy function of m_function, on the current positions and
          \* those the running line search has evaluated
  gfun,   \* the gradient function of m_function, likewise
  d,      \* OBMinimizePrivate
  pc,     \* position in the running method ("idle": no call in progress)
  call,   \* the running TakeNSteps call: method, argument n, loop variable i
  ret,    \* value returned by the last completed call
  ls,     \* locals of the running line search
  obs,    \* history of the run, read by the properties only
  mol,       \* OBForceFieldUFF: GetMolecule()
  groups,    \* GetIntraGroup(), GetInterGroup(), GetInterGroups()
  geom,      \* GetPositions(), as the vector functions see them
  calcs,     \* _bondcalculations ... _electrostaticcalculations
  m_terms,   \* the enabled terms
  m_gradients, \* GetGradients() of the force field
  uff,       \* history of the force field, read by the properties only
  electro    \* MMFF94ElectroTermOpenCL: its members and its history

minvars == <<pos, grad, value, efun, gfun, d, pc, call, ret, ls, obs>>
uffvars ==
  <<mol, groups, geom, calcs, m_terms, m_gradients, uff, electro>>
vars == <<pos, grad, value, efun, gfun, d, pc, call, ret, ls, obs,
          mol, groups, geom, calcs, m_terms, m_gradients, uff, electro>>

N == Len(pos)
Atoms == 1..N
ZeroVec == [c \in Atoms |-> Zero]

squaredNorm(v) == FMul(v, v)
norm(v) == sqrt(squaredNorm(v))

LS0 == [type |-> "none", retpc |-> "idle", ref |-> "none", direction |-> << >>,
        origCoords |-> << >>, scale |-> Zero, step |-> Zero, max_scl |-> Zero,
        opt_step |-> Zero, opt_e |-> Zero, newton |-> 0, delta |-> Zero,
        e_n1 |-> Zero, e_n2 |-> Zero, alpha |-> Zero, i |-> 0,
        lastStep |-> << >>,
        startPos |-> << >>, trueNorm |-> Zero, refines |-> 0, lastDisp |-> << >>,
        cg |-> FALSE, cgGrad |-> << >>, cgOld |-> << >>, prevDir |-> << >>]

Call0 == [fn |-> "none", n |-> 0, i |-> 0, full |-> FALSE,
          zeroStart |-> FALSE, pos0 |-> << >>]

Obs0 == [lsDone |-> FALSE, lsType |-> "none", lsStartE |-> Zero, lsEndE |-> Zero,
         lsRet |-> Zero, lsNetDisp |-> Zero, lsMoved |-> FALSE, lsApplied |-> Zero,
         lsRun |-> 0, reason |-> "none",
         lastDir |-> << >>, initd |-> "none"]

\* what the last line search returned is history once the caller has gone on
Forget(o) == [o EXCEPT !.lsDone = FALSE, !.lsType = "none", !.lsStartE = Zero,
                       !.lsEndE = Zero, !.lsRet = Zero, !.lsNetDisp = Zero,
                       !.lsMoved = FALSE, !.lsApplied = Zero]

(***************************************************************************)
(* OBFunction::Compute, seen from the minimizer: a deterministic function  *)
(* of the positions, revealed one evaluation at a time.                    *)
(***************************************************************************)
ValueAt(p, e) ==
  IF p \in DOMAIN efun THEN e = efun[p] ELSE e \in Energies(d.linesearch)
GradAt(p, g) == IF p \in DOMAIN gfun THEN g = gfun[p] ELSE g \in [1..Len(p) -> GradSet]
Reveal(f, p, v) == IF p \in DOMAIN f THEN f ELSE (p :> v) @@ f

\* Compute(OBFunction::Value) at the positions p, returning e; the caller
\* records the evaluation in efun
ComputeValue(p, e) ==
  /\ ValueAt(p, e)
  /\ value' = e
  /\ grad' = grad

\* Compute(OBFunction::Gradients) at the positions p, returning e and g
ComputeGradients(p, e, g) ==
  /\ ValueAt(p, e)
  /\ GradAt(p, g)
  /\ value' = e
  /\ grad' = g
  /\ efun' = Reveal(efun, p, e)
  /\ gfun' = Reveal(gfun, p, g)

(***************************************************************************)
(* Line searches                                                           *)
(***************************************************************************)
def_step == Mk(25, -3)
max_step == Mk(5, 0)
tiny_scale == Mk(1, -70)
trustRadius == Mk(3, -1)
trustRadius2 == Mk(9, -1)
MaxNewton == 3
MaxTrials == 10

RECURSIVE SumSq(_, _)
\* the loop of lines 91-99: the sum of the finite squaredNorm()s
SumSq(v, c) ==
  IF c = 0 THEN Zero
  ELSE IF isfinite(squaredNorm(v[c])) THEN FAdd(SumSq(v, c - 1), squaredNorm(v[c]))
  ELSE SumSq(v, c - 1)

\* the same loop: direction[c] with NaN or infinity is set to zero
Finite(v) == [c \in 1..Len(v) |-> IF isfinite(squaredNorm(v[c])) THEN v[c] ELSE Zero]

\* lines 101-105
Scale(sum) == IF IsNearZero(sqrt(sum)) THEN tiny_scale ELSE sqrt(sum)

LineSearchTakeStep(origCoords, direction, step) ==
  [c \in 1..Len(direction) |-> FAdd(origCoords[c], FMul(direction[c], step))]

\* lines 206-211: the displacement of one atom in one trial of LineSearch
TempStep(dir, step) ==
  LET tempStep == FMul(dir, step)
  IN IF FGt(squaredNorm(tempStep), trustRadius2)
     THEN FMul(FDiv(tempStep, norm(tempStep)), trustRadius)
     ELSE tempStep

\* TrialDisp without the isfinite() test of line 204
TrialDisp_unguarded(direction, step) ==
  [c \in 1..Len(direction) |-> TempStep(direction[c], step)]

\* lines 203-215: the displacements of one trial (zero for a skipped atom)
TrialDisp(direction, step) ==
  [c \in 1..Len(direction) |->
     IF isfinite(squaredNorm(direction[c])) THEN TempStep(direction[c], step) ELSE Zero]

MoveBy(p, disp) == [c \in 1..Len(p) |-> FAdd(p[c], disp[c])]

\* line 125: if (newton++ > 3) break;
NewtonBreak(newton) == newton > MaxNewton

\* line 139
Denom(e1, e2, e3) == FAdd(FSub(e3, FMul(Mk(2, 0), e2)), e1)

\* lines 141-145
NewStep(step, delta, e1, e2, e3, max_scl) ==
  LET s == fabs(FSub(step, FDiv(FMul(delta, FSub(e2, e1)), Denom(e1, e2, e3))))
  IN IF FGt(s, max_scl) THEN max_scl ELSE s

NoCG == [cg |-> FALSE, cgGrad |-> << >>, cgOld |-> << >>]

\* a line search is entered from the minimizer at lines 282-290, 358-366 and
\* 417-425: direction is the array ref ("gradients" or "grad1"), dbase is d
\* as the caller leaves it, retpc is where the caller continues
StartLineSearch(direction, ref, dbase, retpc, cg) ==
  IF dbase.linesearch = "Newton2Num"
  THEN LET dir == Finite(direction)
           sum == SumSq(direction, Len(direction))
           scale == Scale(sum)
           step == FDiv(def_step, scale)
       IN /\ ls' = [LS0 EXCEPT !.type = "Newton2Num", !.retpc = retpc, !.ref = ref,
                      !.direction = dir, !.origCoords = pos, !.scale = scale,
                      !.step = step, !.max_scl = FDiv(max_step, scale),
                      !.opt_step = Zero, !.opt_e = dbase.e_n1, !.newton = 0,
                      !.startPos = pos, !.trueNorm = sqrt(sum),
                      !.cg = cg.cg, !.cgGrad = cg.cgGrad, !.cgOld = cg.cgOld,
                      !.prevDir = obs.lastDir]
          /\ pos' = LineSearchTakeStep(pos, dir, step)
          /\ d' = IF ref = "grad1" THEN [dbase EXCEPT !.grad1 = dir] ELSE dbase
          /\ grad' = IF ref = "gradients" THEN dir ELSE grad
          /\ pc' = "nw_e1"
          /\ obs' = [obs EXCEPT !.lsRun = @ + 1,
                                !.lastDir = direction]
          /\ UNCHANGED <<value, efun, gfun>>
  ELSE /\ ls' = [LS0 EXCEPT !.type = "Simple", !.retpc = retpc, !.ref = ref,
                   !.direction = direction, !.alpha = Zero, !.step = Mk(2, -1),
                   !.startPos = pos,
                   !.cg = cg.cg, !.cgGrad = cg.cgGrad, !.cgOld = cg.cgOld,
                   !.prevDir = obs.lastDir]
       /\ d' = dbase
       /\ pc' = "ls_e0"
       /\ obs' = [obs EXCEPT !.lsRun = @ + 1,
                             !.lastDir = direction]
       /\ UNCHANGED <<pos, grad, value, efun, gfun>>

\* the line search returns alpha with the positions p in place; ef is the
\* energy function on the positions the search has evaluated, of which only
\* the position left in place is kept; applied is the sum of the steps of the
\* trials whose displacement is part of p
ReturnLineSearch(p, alpha, netDisp, applied, ef) ==
  /\ pos' = p
  /\ pc' = ls.retpc
  /\ ls' = LS0
  /\ efun' = (p :> ef[p])
  /\ gfun' = IF p \in DOMAIN gfun THEN (p :> gfun[p]) ELSE << >>
  /\ obs' = [obs EXCEPT !.lsDone = TRUE, !.lsType = ls.type,
                        !.lsStartE = ef[ls.startPos], !.lsEndE = ef[p],
                        !.lsRet = alpha, !.lsNetDisp = netDisp,
                        !.lsMoved = (p # ls.startPos), !.lsApplied = applied]

\* the line search goes on to its next evaluation
Continue(ef) ==
  /\ efun' = ef
  /\ gfun' = gfun
  /\ obs' = obs

\* lines 151-169, reached from the two breaks of the while loop
NewtonTail(l, ef) ==
  IF l.opt_step = Zero
  THEN LET step == FDiv(FMul(Mk(1, -3), def_step), l.scale)
       IN /\ ls' = [l EXCEPT !.step = step]
          /\ pos' = LineSearchTakeStep(l.origCoords, l.direction, step)
          /\ pc' = "nw_e4"
          /\ Continue(ef)
  ELSE ReturnLineSearch(LineSearchTakeStep(l.origCoords, l.direction, l.opt_step),
                        FMul(l.opt_step, l.scale), FMul(l.opt_step, l.trueNorm),
                        l.opt_step, ef)

\* lines 117-130: energy at X(n) + step
NwE1 ==
  /\ pc = "nw_e1"
  /\ \E e \in EnergySet :
       /\ ComputeValue(pos, e)
       /\ LET better == FLt(e, ls.opt_e)
              l == [ls EXCEPT !.e_n1 = e,
                              !.opt_step = IF better THEN ls.step ELSE @,
                              !.opt_e = IF better THEN e ELSE @,
                              !.newton = @ + 1]
          IN IF NewtonBreak(ls.newton)
             THEN NewtonTail(l, Reveal(efun, pos, e))
             ELSE LET delta == FMul(ls.step, Mk(1, -3))
                  IN /\ ls' = [l EXCEPT !.delta = delta]
                     /\ pos' = LineSearchTakeStep(ls.origCoords, ls.direction,
                                                  FAdd(ls.step, delta))
                     /\ pc' = "nw_e2"
                     /\ Continue(Reveal(efun, pos, e))
  /\ UNCHANGED <<d, call, ret>>

\* lines 131-135: energy at X(n) + step + delta
NwE2 ==
  /\ pc = "nw_e2"
  /\ \E e \in EnergySet :
       /\ ComputeValue(pos, e)
       /\ ls' = [ls EXCEPT !.e_n2 = e]
       /\ Continue(Reveal(efun, pos, e))
  /\ pos' = LineSearchTakeStep(ls.origCoords, ls.direction,
                               FAdd(ls.step, FMul(ls.delta, Mk(2, 0))))
  /\ pc' = "nw_e3"
  /\ UNCHANGED <<d, call, ret>>

\* lines 136-148: energy at X(n) + step + 2 delta, then the Newton update
NwE3 ==
  /\ pc = "nw_e3"
  /\ \E e \in EnergySet :
       /\ ComputeValue(pos, e)
       /\ IF Denom(ls.e_n1, ls.e_n2, e) # Zero
          THEN LET step == NewStep(ls.step, ls.delta, ls.e_n1, ls.e_n2, e, ls.max_scl)
               IN /\ ls' = [ls EXCEPT !.step = step, !.refines = @ + 1]
                  /\ pos' = LineSearchTakeStep(ls.origCoords, ls.direction, step)
                  /\ pc' = "nw_e1"
                  /\ Continue(Reveal(efun, pos, e))
          ELSE NewtonTail(ls, Reveal(efun, pos, e))
  /\ UNCHANGED <<d, call, ret>>

\* lines 156-169: energy at the very small step, then the optimal step
NwE4 ==
  /\ pc = "nw_e4"
  /\ \E e \in EnergySet :
       /\ ComputeValue(pos, e)
       /\ LET opt_step == IF FLt(e, ls.opt_e) THEN ls.step ELSE ls.opt_step
          IN ReturnLineSearch(LineSearchTakeStep(ls.origCoords, ls.direction, opt_step),
                              FMul(opt_step, ls.scale), FMul(opt_step, ls.trueNorm),
                              opt_step, Reveal(efun, pos, e))
  /\ UNCHANGED <<d, call, ret>>

\* lines 193-215: LineSearch evaluates the start, then takes the first trial
LsE0 ==
  /\ pc = "ls_e0"
  /\ \E e \in EnergySet :
       /\ ComputeValue(pos, e)
       /\ LET disp == TrialDisp(ls.direction, ls.step)
          IN /\ ls' = [ls EXCEPT !.e_n1 = e, !.i = 0, !.lastStep = pos,
                                 !.lastDisp = disp]
             /\ pos' = MoveBy(pos, disp)
       /\ Continue(Reveal(efun, pos, e))
  /\ pc' = "ls_e"
  /\ UNCHANGED <<d, call, ret>>

\* line 222
LineSearchConverged(e_n2, e_n1) == IsNear(e_n2, e_n1, Mk(1, -3))

\* lines 217-242: LineSearch evaluates a trial, adapts the step, takes the next
LsE ==
  /\ pc = "ls_e"
  /\ \E e \in EnergySet :
       /\ ComputeValue(pos, e)
       /\ IF LineSearchConverged(e, ls.e_n1)
          THEN ReturnLineSearch(pos, ls.alpha, Zero, FAdd(ls.alpha, ls.step),
                                Reveal(efun, pos, e))
          ELSE LET up == FGt(e, ls.e_n1)
                   down == FLt(e, ls.e_n1)
                   grown == FMul(ls.step, Mk(215, -2))
                   step == IF up THEN FMul(ls.step, Mk(1, -1))
                           ELSE IF down
                                THEN (IF FGt(grown, Mk(1, 0)) THEN Mk(1, 0) ELSE grown)
                                ELSE ls.step
                   cur == IF up THEN ls.lastStep ELSE pos
                   alpha == IF down THEN FAdd(ls.alpha, ls.step) ELSE ls.alpha
                   e_n1 == IF down THEN e ELSE ls.e_n1
               IN IF ls.i + 1 < MaxTrials
                  THEN LET disp == TrialDisp(ls.direction, step)
                       IN /\ ls' = [ls EXCEPT !.e_n1 = e_n1, !.e_n2 = e, !.step = step,
                                              !.alpha = alpha, !.i = @ + 1,
                                              !.lastStep = cur, !.lastDisp = disp]
                          /\ pos' = MoveBy(cur, disp)
                          /\ pc' = "ls_e"
                          /\ Continue(Reveal(efun, pos, e))
                  ELSE ReturnLineSearch(cur, alpha, Zero, alpha, Reveal(efun, pos, e))
  /\ UNCHANGED <<d, call, ret>>

(***************************************************************************)
(* Steepest descent                                                        *)
(***************************************************************************)
\* the step counter d->cstep is kept within MaxSteps
CanStep(n) == d.cstep + n <= MaxSteps

NewCall(fn, n, full, g, cstep) ==
  LET zeroStart == cstep = 0 /\ n >= 1 /\ g = [c \in 1..Len(g) |-> Zero]
  IN [fn |-> fn, n |-> n, i |-> 1, full |-> full,
      zeroStart |-> zeroStart, pos0 |-> IF zeroStart THEN pos ELSE << >>]

\* the call returns: its argument and loop variable are gone
Returned(c) == [c EXCEPT !.n = 0, !.i = 0]

\* lines 245-265; with full, SteepestDescent (lines 317-321) goes on to
\* SteepestDescentTakeNSteps(steps)
SDInit(steps, econv, full) ==
  /\ pc = "idle"
  /\ obs.initd = "none"
  /\ \E e \in EnergySet, g \in [Atoms -> GradSet] :
       /\ ComputeGradients(pos, e, g)
       /\ d' = [d EXCEPT !.nsteps = steps, !.cstep = 0, !.econv = econv, !.e_n1 = e]
       /\ IF full
          THEN /\ call' = NewCall("sd", steps, TRUE, g, 0)
               /\ pc' = "sd_top"
               /\ ret' = "none"
          ELSE /\ call' = Call0
               /\ pc' = "idle"
               /\ ret' = "void"
  /\ obs' = [obs EXCEPT !.initd = "sd", !.lsRun = 0, !.reason = "none"]
  /\ UNCHANGED <<pos, ls>>

SteepestDescentInitialize ==
  \E steps \in 1..MaxSteps, econv \in EconvSet : SDInit(steps, econv, FALSE)

SteepestDescent ==
  \E steps \in 0..MaxSteps, econv \in EconvSet :
    SDInit(steps, econv, TRUE)

\* line 267: the call itself
SteepestDescentTakeNSteps ==
  /\ pc = "idle"
  /\ obs.initd = "sd"
  /\ \E n \in 1..MaxSteps :
       /\ CanStep(n)
       /\ call' = NewCall("sd", n, FALSE, grad, d.cstep)
  /\ pc' = "sd_top"
  /\ ret' = "none"
  /\ obs' = [obs EXCEPT !.lsRun = 0, !.reason = "none"]
  /\ UNCHANGED <<pos, grad, value, efun, gfun, d, ls>>

\* lines 271-290, and line 314 when the loop is over
SDTop ==
  /\ pc = "sd_top"
  /\ IF call.i <= call.n
     THEN /\ StartLineSearch(grad, "gradients", [d EXCEPT !.cstep = @ + 1],
                             "sd_after", NoCG)
          /\ UNCHANGED <<call, ret>>
     ELSE /\ pc' = "idle"
          /\ ret' = "true"
          /\ call' = Returned(call)
          /\ UNCHANGED <<pos, grad, value, efun, gfun, d, ls, obs>>

\* lines 301 and 432
Converged(e_n2, e_n1, econv) == IsNear(e_n2, e_n1, econv)

\* Exhausted, one step early
Exhausted_early(nsteps, cstep) == nsteps = cstep + 1

\* lines 307 and 448
Exhausted(nsteps, cstep) == nsteps = cstep

\* lines 301-311 and 432-451: the end of one step of either minimizer
EndOfStep(dbase, e, nextpc) ==
  IF Converged(e, dbase.e_n1, dbase.econv)
  THEN /\ d' = dbase
       /\ pc' = "idle"
       /\ ret' = "false"
       /\ obs' = [Forget(obs) EXCEPT !.reason = "converged"]
       /\ call' = Returned(call)
  ELSE IF Exhausted(dbase.nsteps, dbase.cstep)
  THEN /\ d' = dbase
       /\ pc' = "idle"
       /\ ret' = "false"
       /\ obs' = [Forget(obs) EXCEPT !.reason = "exhausted"]
       /\ call' = Returned(call)
  ELSE /\ d' = [dbase EXCEPT !.e_n1 = e]
       /\ pc' = nextpc
       /\ ret' = ret
       /\ obs' = Forget(obs)
       /\ call' = [call EXCEPT !.i = @ + 1]

\* lines 291-311
SDAfter ==
  /\ pc = "sd_after"
  /\ \E e \in EnergySet, g \in [Atoms -> GradSet] :
       /\ ComputeGradients(pos, e, g)
       /\ EndOfStep(d, e, "sd_top")
  /\ UNCHANGED <<pos, ls>>

(***************************************************************************)
(* Conjugate gradients                                                     *)
(***************************************************************************)
\* lines 327-346; with full, ConjugateGradients (lines 457-461)
CGInit(steps, econv, full) ==
  /\ pc = "idle"
  /\ obs.initd = "none"
  /\ \E e \in EnergySet, g \in [Atoms -> GradSet] :
       /\ ComputeGradients(pos, e, g)
       /\ d' = [d EXCEPT !.cstep = 0, !.nsteps = steps, !.econv = econv,
                         !.e_n1 = e, !.grad1 = ZeroVec]
  /\ call' = [Call0 EXCEPT !.fn = "cgi", !.full = full]
  /\ pc' = "cgi_ls"
  /\ ret' = "none"
  /\ obs' = [obs EXCEPT !.initd = "cg", !.lsRun = 0, !.reason = "none"]
  /\ UNCHANGED <<pos, ls>>

ConjugateGradientsInitialize ==
  \E steps \in 1..MaxSteps, econv \in EconvSet : CGInit(steps, econv, FALSE)

ConjugateGradients ==
  \E steps \in 0..MaxSteps, econv \in EconvSet : CGInit(steps, econv, TRUE)

\* lines 357-366: the first step, along the gradients
CGInitLineSearch ==
  /\ pc = "cgi_ls"
  /\ StartLineSearch(grad, "gradients", d, "cgi_after", NoCG)
  /\ UNCHANGED <<call, ret>>

\* lines 376 and 427: what is kept in d->grad1 for the next step
SavedDirection(gradients, direction) == gradients

\* lines 367-377; ConjugateGradients then calls ConjugateGradientsTakeNSteps
CGInitAfter ==
  /\ pc = "cgi_after"
  /\ \E e \in EnergySet, g \in [Atoms -> GradSet] :
       /\ ComputeGradients(pos, e, g)
       /\ d' = [d EXCEPT !.grad1 = SavedDirection(g, obs.lastDir), !.e_n1 = e]
       /\ IF call.full
          THEN /\ call' = NewCall("cg", d.nsteps, TRUE, g, 0)
               /\ pc' = "cg_top"
               /\ ret' = "none"
          ELSE /\ call' = Call0
               /\ pc' = "idle"
               /\ ret' = "void"
  /\ obs' = Forget(obs)
  /\ UNCHANGED <<pos, ls>>

\* line 380: the call itself
ConjugateGradientsTakeNSteps ==
  /\ pc = "idle"
  /\ obs.initd = "cg"
  /\ \E n \in 1..MaxSteps :
       /\ CanStep(n)
       /\ call' = NewCall("cg", n, FALSE, grad, d.cstep)
  /\ pc' = "cg_top"
  /\ ret' = "none"
  /\ obs' = [obs EXCEPT !.lsRun = 0, !.reason = "none"]
  /\ UNCHANGED <<pos, grad, value, efun, gfun, d, ls>>

\* UsesBeta, resetting every natoms + 1 steps
UsesBeta_late(cstep, natoms) == cstep % (natoms + 1) # 0

\* line 406: the steps that mix in the previous direction
UsesBeta(cstep, natoms) == cstep % natoms # 0

\* lines 407-410, for the atom idx
Beta(grad2, grad1, idx) ==
  FDiv(FMul(grad2[idx], grad2[idx]), FMul(grad1[idx], grad1[idx]))

\* lines 393-415: the new direction, stored in d->grad1
CGDirection(cstep, gradients, grad1) ==
  [idx \in 1..Len(gradients) |->
     IF UsesBeta(cstep, Len(gradients))
     THEN FAdd(gradients[idx], FMul(Beta(gradients, grad1, idx), grad1[idx]))
     ELSE gradients[idx]]

\* lines 390-425, and line 454 when the loop is over
CGTop ==
  /\ pc = "cg_top"
  /\ IF call.i <= call.n
     THEN LET cstep == d.cstep + 1
              dir == CGDirection(cstep, grad, d.grad1)
          IN StartLineSearch(dir, "grad1", [d EXCEPT !.cstep = cstep, !.grad1 = dir],
                             "cg_after",
                             [cg |-> TRUE, cgGrad |-> grad, cgOld |-> d.grad1])
             /\ UNCHANGED <<call, ret>>
     ELSE /\ pc' = "idle"
          /\ ret' = "true"
          /\ call' = Returned(call)
          /\ UNCHANGED <<pos, grad, value, efun, gfun, d, ls, obs>>

\* lines 427-451
CGAfter ==
  /\ pc = "cg_after"
  /\ \E e \in EnergySet, g \in [Atoms -> GradSet] :
       /\ ComputeGradients(pos, e, g)
       /\ EndOfStep([d EXCEPT !.grad1 = SavedDirection(grad, obs.lastDir)], e, "cg_top")
  /\ UNCHANGED <<pos, ls>>

(***************************************************************************)
(* OBForceFieldUFF (src/unnamed/part_002): libm functions on doubles       *)
(*                                                                         *)
(* cos, sin and acos work on angles in units of 1e-4 radian, which is the  *)
(* resolution of the four digit doubles near 1; log is tabulated on the    *)
(* bond orders the force field can pass to it.                             *)
(***************************************************************************)
\* a finite double as an integer count of 1e-4 (truncated toward zero)
ToFix(a) ==
  LET s == a.e + 4
      mag == IF s >= 0 THEN IAbs(a.m) * Pow10(s)
             ELSE IF s < -4 THEN 0
             ELSE IAbs(a.m) \div Pow10(-s)
  IN Sgn(a.m) * mag

\* cosine of k * 1e-4 radian for 0 <= k <= pi/2, in units of 1e-4
CosQuarter(k) ==
  LET sq == (k * k) \div 10000
      q4 == (sq * sq) \div 10000
      q6 == (q4 * sq) \div 10000
      q8 == ((q6 \div 10) * sq) \div 1000
  IN 10000 - (sq \div 2) + (q4 \div 24) - (q6 \div 720) + (q8 \div 40320)

CosFix(k) ==
  LET r == IAbs(k) % 62832
      h == IF r > 31416 THEN 62832 - r ELSE r
  IN IF h > 15708 THEN -CosQuarter(31416 - h) ELSE CosQuarter(h)

cos(a) == IF ~isfinite(a) THEN NaN ELSE Mk(CosFix(ToFix(a)), -4)
sin(a) == IF ~isfinite(a) THEN NaN ELSE Mk(CosFix(ToFix(a) - 15708), -4)

RECURSIVE AcosIn(_, _, _)
AcosIn(c, lo, hi) ==
  IF lo >= hi THEN lo
  ELSE LET mid == (lo + hi) \div 2
       IN IF CosFix(mid) <= c THEN AcosIn(c, lo, mid) ELSE AcosIn(c, mid + 1, hi)

acos(a) ==
  IF ~isfinite(a) \/ FGt(fabs(a), Mk(1, 0)) THEN NaN
  ELSE Mk(AcosIn(ToFix(a), 0, 31416), -4)

\* log of a bond order: GetBondOrder() is 1, 2 or 3, aromatic 1.5, amide 1.41
log(bondorder) ==
  CASE bondorder = Mk(1, 0) -> Zero
    [] bondorder = Mk(141, -2) -> Mk(3435, -4)
    [] bondorder = Mk(15, -1) -> Mk(4054, -4)
    [] bondorder = Mk(2, 0) -> Mk(6931, -4)
    [] bondorder = Mk(3, 0) -> Mk(1098, -3)

DEG_TO_RAD == Mk(1745, -5)
KCAL_TO_KJ == Mk(4186, -3)

(***************************************************************************)
(* OBForceFieldUFF: parameter table, molecules, groups, geometries         *)
(***************************************************************************)
\* one "param" line of UFF.prm as ParseParamFile (lines 1063-1108) stores it:
\* a is the type label, dpar[k + 1] is _dpar[k] (r1, theta0, x1, D1, zeta,
\* Z1, Vi, Uj, Xi) and ipar is _ipar[0], read off the label's third character
OBFFParameter(a, ipar, r1, theta0, x1, D1, zeta, Z1, Vi, Uj, Xi) ==
  [a |-> a, ipar |-> ipar,
   dpar |-> <<r1, theta0, x1, D1, zeta, Z1, Vi, Uj, Xi>>]

ffparams ==
  << OBFFParameter("H_", 1, Mk(354, -3), Mk(180, 0), Mk(2886, -3),
                   Mk(44, -3), Mk(12, 0), Mk(712, -3), Zero, Zero,
                   Mk(4528, -3)),
     OBFFParameter("C_3", 3, Mk(757, -3), Mk(1094, -1), Mk(3851, -3),
                   Mk(105, -3), Mk(1273, -2), Mk(1912, -3), Mk(2119, -3),
                   Mk(2, 0), Mk(5343, -3)),
     OBFFParameter("C_2", 2, Mk(732, -3), Mk(120, 0), Mk(3851, -3),
                   Mk(105, -3), Mk(1273, -2), Mk(1912, -3), Zero,
                   Mk(2, 0), Mk(5343, -3)),
     OBFFParameter("C_1", 1, Mk(706, -3), Mk(180, 0), Mk(3851, -3),
                   Mk(105, -3), Mk(1273, -2), Mk(1912, -3), Zero,
                   Mk(2, 0), Mk(5343, -3)),
     OBFFParameter("N_3", 3, Mk(700, -3), Mk(1067, -1), Mk(3660, -3),
                   Mk(69, -3), Mk(1340, -2), Mk(2544, -3), Mk(450, -3),
                   Mk(2, 0), Mk(6899, -3)),
     OBFFParameter("O_3", 3, Mk(658, -3), Mk(1045, -1), Mk(3500, -3),
                   Mk(60, -3), Mk(1408, -2), Mk(2300, -3), Mk(18, -3),
                   Mk(2, 0), Mk(8741, -3)) >>

\* the null pointer, and what a read through it may deliver when the
\* process survives the read
NULL == [a |-> "NULL", ipar |-> 0, dpar |-> << >>]
GarbageParameters ==
  { OBFFParameter("?", 0, Mk(1, 0), Mk(90, 0), Mk(1, 0), Mk(1, 0), Mk(1, 0),
                  Mk(1, 0), Mk(1, 0), Mk(1, 0), Mk(1, 0)),
    OBFFParameter("?", 3, Zero, Zero, Zero, Zero, Zero, Zero, Zero, Zero,
                  Zero) }

\* lines 1227-1235
GetParameterUFF(a, parameter) ==
  IF \E idx \in 1..Len(parameter) : parameter[idx].a = a
  THEN parameter[CHOOSE idx \in 1..Len(parameter) :
                   /\ parameter[idx].a = a
                   /\ \A j \in 1..(idx - 1) : parameter[j].a # a]
  ELSE NULL

\* p-> on a parameter pointer: g is what the read of a null pointer delivers
Deref(p, g) == IF p = NULL THEN g ELSE p

\* atom types of the molecules; "Du" has no line in the parameter table
MiddleTypes == {"C_3", "C_2", "C_1", "O_3", "Du"}
SecondTypes == {"C_3", "C_2"}
CenterTypes == {"C_2", "C_3", "N_3"}
LongTypes == {"C_3", "C_1"}

\* a->GetAtomicNum() and a->GetPartialCharge() of an atom of the given type
GetAtomicNum(type) ==
  CASE type = "H_" -> 1
    [] type \in {"C_3", "C_2", "C_1"} -> 6
    [] type = "N_3" -> 7
    [] type = "O_3" -> 8
    [] OTHER -> 0

GetPartialCharge(type) ==
  CASE type = "H_" -> Mk(1, -1)
    [] type = "N_3" -> Mk(-3, -1)
    [] type = "O_3" -> Mk(-4, -1)
    [] OTHER -> Zero

\* A molecule: atom types, the bonds in FOR_BONDS_OF_MOL order (all of order
\* 1, neither aromatic nor amide), the angles (vertex first) and torsions as
\* the graph enumerates them.
Chain(types) ==
  [type |-> types,
   bonds |-> [k \in 1..(Len(types) - 1) |-> <<k, k + 1>>],
   angles |-> [k \in 1..(Len(types) - 2) |-> <<k + 1, k, k + 2>>],
   torsions |-> [k \in 1..(Len(types) - 3) |-> <<k, k + 1, k + 2, k + 3>>]]

StarAngles(nbrs) ==
  IF nbrs = 3 THEN << <<1, 2, 3>>, <<1, 2, 4>>, <<1, 3, 4>> >>
  ELSE << <<1, 2, 3>>, <<1, 2, 4>>, <<1, 2, 5>>, <<1, 3, 4>>, <<1, 3, 5>>,
          <<1, 4, 5>> >>

Star(center, nbrs) ==
  [type |-> <<center>> \o [k \in 1..nbrs |-> "H_"],
   bonds |-> [k \in 1..nbrs |-> <<1, k + 1>>],
   angles |-> StarAngles(nbrs),
   torsions |-> << >>]

Molecules ==
  {Chain(<<"H_", t2, t3, "H_">>) : t2 \in MiddleTypes, t3 \in SecondTypes}
  \cup {Chain(<<"H_", t2, t3, t4, "H_">>) :
          t2 \in LongTypes, t3 \in LongTypes, t4 \in LongTypes}
  \cup {Star(t, 3) : t \in CenterTypes}
  \cup {Star(t, 4) : t \in CenterTypes}

NumAtoms(m) == Len(m.type)

\* the molecule after the topology change of the model: the last atom and
\* its bond are deleted
RemoveLastAtom(m) ==
  LET n == NumAtoms(m) - 1
      Keep(seq) == SelectSeq(seq, LAMBDA t : \A k \in 1..Len(t) : t[k] <= n)
  IN [type |-> SubSeq(m.type, 1, n), bonds |-> Keep(m.bonds),
      angles |-> Keep(m.angles), torsions |-> Keep(m.torsions)]

\* OBAtom::IsConnected, OBAtom::IsOneThree, FOR_NBORS_OF_ATOM, OBMol::GetBond
IsConnected(m, a, b) ==
  \E k \in 1..Len(m.bonds) : m.bonds[k] \in {<<a, b>>, <<b, a>>}
IsOneThree(m, a, b) ==
  \E c \in 1..NumAtoms(m) : IsConnected(m, a, c) /\ IsConnected(m, c, b)
Nbors(m, b) ==
  LET ends == SelectSeq(m.bonds, LAMBDA t : t[1] = b \/ t[2] = b)
  IN [k \in 1..Len(ends) |-> IF ends[k][1] = b THEN ends[k][2] ELSE ends[k][1]]
GetBondOrder(m, a, b) == Mk(1, 0)

\* FOR_PAIRS_OF_MOL: every pair of atoms a < b, in index order
RECURSIVE PairsFrom(_, _, _)
PairsFrom(n, a, b) ==
  IF a >= n THEN << >>
  ELSE IF b > n THEN PairsFrom(n, a + 1, a + 2)
  ELSE << <<a, b>> >> \o PairsFrom(n, a, b + 1)
Pairs(m) == PairsFrom(NumAtoms(m), 1, 2)

\* group masks: GetIntraGroup(), GetInterGroup(), GetInterGroups()
NoGroups == [intraGroup |-> << >>, interGroup |-> << >>, interGroups |-> << >>]
GroupSet ==
  { NoGroups,
    [intraGroup |-> << {1, 2, 3, 4} >>, interGroup |-> << {1, 2, 3, 4, 5} >>,
     interGroups |-> << >>],
    [intraGroup |-> << {1, 2} >>, interGroup |-> << >>,
     interGroups |-> << <<{1}, {2, 4, 5}>> >>] }
HasGroups(g) ==
  Len(g.intraGroup) > 0 \/ Len(g.interGroup) > 0 \/ Len(g.interGroups) > 0

(***************************************************************************)
(* OBForceFieldUFF::SetupCalculations and SetupElectrostatics              *)
(*                                                                         *)
(* Every record carries, next to the fields the code stores, the number of *)
(* the topology (field built) it was built from; no operation reads it.    *)
(***************************************************************************)
dpar(p, k) == p.dpar[k + 1]
F3(a, b, c) == FMul(FMul(a, b), c)
Param(m, atom, g) == Deref(GetParameterUFF(m.type[atom], ffparams), g)
Missing(m, atom) == GetParameterUFF(m.type[atom], ffparams) = NULL

\* lines 537-545, 590-599, 666-675, 858-867
IntraValid(grp, atoms) ==
  HasGroups(grp) =>
    \E i \in 1..Len(grp.intraGroup) : atoms \subseteq grp.intraGroup[i]

\* lines 920-935 and 1003-1018
InterValid(grp, a, b) ==
  HasGroups(grp) =>
    \/ \E i \in 1..Len(grp.interGroup) : {a, b} \subseteq grp.interGroup[i]
    \/ \E i \in 1..Len(grp.interGroups) :
         \/ a \in grp.interGroups[i][1] /\ b \in grp.interGroups[i][2]
         \/ b \in grp.interGroups[i][1] /\ a \in grp.interGroups[i][2]

\* lines 488-507
pow2(x) == FMul(x, x)
CalculateBondDistance(i, j, bondorder) ==
  LET ri == dpar(i, 0)
      rj == dpar(j, 0)
      chiI == dpar(i, 8)
      chiJ == dpar(j, 8)
      rbo == F3(Mk(-1332, -4), FAdd(ri, rj), log(bondorder))
      ren == FDiv(F3(ri, rj, pow2(FSub(sqrt(chiI), sqrt(chiJ)))),
                  FAdd(FMul(chiI, ri), FMul(chiJ, rj)))
  IN FSub(FAdd(FAdd(ri, rj), rbo), ren)

\* lines 553-568, with the locals the statements share as parameters
BondRecord(t, bondorder, parameterA, parameterB, r0, ver) ==
  [a |-> t[1], b |-> t[2], bt |-> bondorder, r0 |-> r0,
   kb |-> FDiv(FMul(F3(FMul(Mk(5, -1), KCAL_TO_KJ), Mk(6641, -1),
                       dpar(parameterA, 5)), dpar(parameterB, 5)),
               F3(r0, r0, r0)),
   built |-> ver]

BondParameters(t, bondorder, parameterA, parameterB, ver) ==
  BondRecord(t, bondorder, parameterA, parameterB,
             CalculateBondDistance(parameterA, parameterB, bondorder), ver)

\* lines 547-568
BondCalculation(m, t, g, ver) ==
  BondParameters(t, GetBondOrder(m, t[1], t[2]), Param(m, t[1], g),
                 Param(m, t[2], g), ver)

BondRecords(m, valid, g, ver) ==
  [k \in 1..Len(valid) |-> BondCalculation(m, valid[k], g, ver)]

\* lines 532-569
BondCalculations(m, grp, g, ver) ==
  BondRecords(m, SelectSeq(m.bonds, LAMBDA t : IntraValid(grp, {t[1], t[2]})),
              g, ver)

\* lines 640-643, with the locals the statements share as parameters
AngleRecord(t, parameterA, parameterB, parameterC, cosT0, c2, rab, rbc, rac, ver) ==
  [a |-> t[2], b |-> t[1], c |-> t[3], coord |-> parameterB.ipar,
   zi |-> dpar(parameterA, 5), zk |-> dpar(parameterC, 5),
   theta0 |-> dpar(parameterB, 1), cosT0 |-> cosT0,
   c0 |-> FMul(c2, FAdd(F3(Mk(2, 0), cosT0, cosT0), Mk(1, 0))),
   c1 |-> F3(Mk(-4, 0), c2, cosT0),
   c2 |-> c2,
   ka |-> FMul(FMul(FMul(Mk(6441, -1), KCAL_TO_KJ),
                    FDiv(FMul(dpar(parameterA, 5), dpar(parameterC, 5)),
                         FMul(F3(rac, rac, rac), FMul(rac, rac)))),
               FSub(FMul(F3(Mk(3, 0), rab, rbc),
                         FSub(Mk(1, 0), FMul(cosT0, cosT0))),
                    F3(rac, rac, cosT0))),
   built |-> ver]

\* line 636
AngleDistances(t, parameterA, parameterB, parameterC, cosT0, sinT0, rab, rbc, ver) ==
  AngleRecord(t, parameterA, parameterB, parameterC, cosT0,
              FDiv(Mk(1, 0), F3(Mk(4, 0), sinT0, sinT0)), rab, rbc,
              sqrt(FSub(FAdd(FMul(rab, rab), FMul(rbc, rbc)),
                        FMul(F3(Mk(2, 0), rab, rbc), cosT0))),
              ver)

\* lines 609-635
AngleParameters(m, t, parameterA, parameterB, parameterC, ver) ==
  AngleDistances(t, parameterA, parameterB, parameterC,
                 cos(FMul(dpar(parameterB, 1), DEG_TO_RAD)),
                 sin(FMul(dpar(parameterB, 1), DEG_TO_RAD)),
                 CalculateBondDistance(parameterA, parameterB,
                                       GetBondOrder(m, t[2], t[1])),
                 CalculateBondDistance(parameterB, parameterC,
                                       GetBondOrder(m, t[1], t[3])),
                 ver)

\* lines 601-643; the angle triple t holds the vertex b first, then a and c
AngleCalculation(m, t, g, ver) ==
  AngleParameters(m, t, Param(m, t[2], g), Param(m, t[1], g),
                  Param(m, t[3], g), ver)

AngleRecords(m, valid, g, ver) ==
  [k \in 1..Len(valid) |-> AngleCalculation(m, valid[k], g, ver)]

\* lines 584-644
AngleCalculations(m, grp, g, ver) ==
  AngleRecords(m, SelectSeq(m.angles,
                            LAMBDA t : IntraValid(grp, {t[1], t[2], t[3]})),
               g, ver)

\* what the fields n and V of the local torsioncalc (line 652) may hold before
\* the first assignment to them
GarbageTorsion == {[n |-> 0, V |-> Zero], [n |-> 3, V |-> Mk(7, 0)]}

Chalcogens == {8, 16, 34, 52, 84}
GroupSixV(num, v) ==
  IF num = 8 THEN Mk(2, 0) ELSE IF num \in Chalcogens THEN Mk(68, -1) ELSE v

\* lines 690-769: the locals n, V and phi0 after the decision table, given
\* what they held before this torsion (calc)
TorsionTable(m, t, g, calc) ==
  LET b == t[2]
      c == t[3]
      torsiontype == GetBondOrder(m, b, c)
      parameterB == Param(m, b, g)
      parameterC == Param(m, c, g)
      bnum == GetAtomicNum(m.type[b])
      cnum == GetAtomicNum(m.type[c])
      half == FMul(Mk(5, -1), KCAL_TO_KJ)
  IN IF parameterB.ipar = 3 /\ parameterC.ipar = 3 THEN
       LET vi == GroupSixV(bnum, dpar(parameterB, 6))
           vj == GroupSixV(cnum, dpar(parameterC, 6))
           six == bnum \in Chalcogens \/ cnum \in Chalcogens
       IN [n |-> IF six THEN 2 ELSE 3,
           phi0 |-> IF six THEN Mk(90, 0) ELSE Mk(60, 0),
           V |-> FMul(half, sqrt(FMul(vi, vj)))]
     ELSE IF parameterB.ipar = 2 /\ parameterC.ipar = 2 THEN
       [n |-> 2, phi0 |-> Mk(180, 0),
        V |-> FMul(F3(half, Mk(5, 0),
                      sqrt(FMul(dpar(parameterB, 7), dpar(parameterC, 7)))),
                   FAdd(Mk(1, 0), FMul(Mk(418, -2), log(torsiontype))))]
     ELSE IF \/ parameterB.ipar = 2 /\ parameterC.ipar = 3
             \/ parameterB.ipar = 3 /\ parameterC.ipar = 2 THEN
       LET six == \/ parameterC.ipar = 3 /\ cnum \in Chalcogens
                  \/ parameterB.ipar = 3 /\ bnum \in Chalcogens
       IN [n |-> IF six THEN 2 ELSE 6,
           phi0 |-> IF six THEN Mk(90, 0) ELSE Zero,
           V |-> FMul(half, Mk(1, 0))]
     ELSE calc

\* lines 771-777: the record pushed for torsion t unless V is near zero, new
\* being n, V and phi0 after the decision table
TorsionRecord(m, t, new, ver) ==
  IF IsNearZero(new.V) THEN << >>
  ELSE << [a |-> t[1], b |-> t[2], c |-> t[3], d |-> t[4],
           tt |-> GetBondOrder(m, t[2], t[3]), n |-> new.n, V |-> new.V,
           cosNPhi0 |-> cos(F3(Mk(new.n, 0), DEG_TO_RAD, new.phi0)),
           built |-> ver] >>

\* lines 659-778 from the k-th torsion on
RECURSIVE TorsionsFrom(_, _, _, _, _, _)
RECURSIVE TorsionsAfter(_, _, _, _, _, _)
TorsionsAfter(m, grp, g, ver, k, new) ==
  TorsionRecord(m, m.torsions[k], new, ver)
  \o TorsionsFrom(m, grp, g, ver, k + 1, new)

TorsionsFrom(m, grp, g, ver, k, calc) ==
  IF k > Len(m.torsions) THEN << >>
  ELSE IF ~IntraValid(grp, {m.torsions[k][x] : x \in 1..4})
       THEN TorsionsFrom(m, grp, g, ver, k + 1, calc)
       ELSE TorsionsAfter(m, grp, g, ver, k,
                          TorsionTable(m, m.torsions[k], g, calc))

\* lines 652-778: u is what torsioncalc.n and torsioncalc.V hold at line 652
TorsionCalculations(m, grp, g, ver, u) ==
  TorsionsFrom(m, grp, g, ver, 1, [n |-> u.n, V |-> u.V, phi0 |-> Zero])

\* lines 795-842: the coefficients of an inversion centre, or None when the
\* loop continues
None == [none |-> TRUE]
InversionTypes == {"N_3", "N_2", "N_R", "O_2", "O_R"}
PnictogenPhi ==
  [type \in {"P_3+3", "As3+3", "Sb3+3", "Bi3+3"} |->
     CASE type = "P_3+3" -> FMul(Mk(8443, -2), DEG_TO_RAD)
       [] type = "As3+3" -> FMul(Mk(8697, -2), DEG_TO_RAD)
       [] type = "Sb3+3" -> FMul(Mk(8770, -2), DEG_TO_RAD)
       [] OTHER -> FMul(Mk(90, 0), DEG_TO_RAD)]

OOPCenter(type) ==
  IF GetAtomicNum(type) \notin {6, 7, 8, 15, 33, 51, 83} THEN None
  ELSE IF type \in InversionTypes THEN
    [c0 |-> Mk(1, 0), c1 |-> Mk(-1, 0), c2 |-> Zero,
     koop |-> FMul(Mk(6, 0), KCAL_TO_KJ)]
  ELSE IF type \in DOMAIN PnictogenPhi THEN
    LET phi == PnictogenPhi[type]
        c1 == FMul(Mk(-4, 0), cos(phi))
    IN [c0 |-> FAdd(F3(Mk(-1, 0), c1, cos(phi)),
                    FMul(Mk(1, 0), cos(FMul(Mk(2, 0), phi)))),
        c1 |-> c1, c2 |-> Mk(1, 0), koop |-> FMul(Mk(22, 0), KCAL_TO_KJ)]
  ELSE IF type \in {"C_2", "C_R"} THEN
    [c0 |-> Mk(1, 0), c1 |-> Mk(-1, 0), c2 |-> Zero,
     koop |-> FMul(Mk(6, 0), KCAL_TO_KJ)]
  ELSE None

\* lines 845-855: a is the first neighbour, c the second and d the last of
\* the others; None unless all three are set
OOPNeighbours(m, b) ==
  LET nbrs == Nbors(m, b)
  IN IF Len(nbrs) < 3 THEN None
     ELSE [a |-> nbrs[1], c |-> nbrs[2], d |-> nbrs[Len(nbrs)]]

\* lines 792-902 for one atom b
OOPCalculation(m, grp, b, ver) ==
  LET center == OOPCenter(m.type[b])
      nb == OOPNeighbours(m, b)
  IN IF center = None \/ nb = None THEN << >>
     ELSE IF ~IntraValid(grp, {nb.a, b, nb.c, nb.d}) THEN << >>
     ELSE LET oxo == \E x \in {nb.a, nb.c, nb.d} : m.type[x] = "O_2"
              koop == IF m.type[b] \in {"C_2", "C_R"} /\ oxo
                      THEN FMul(Mk(50, 0), KCAL_TO_KJ) ELSE center.koop
              rec(ra, rc, rd) ==
                [a |-> ra, b |-> b, c |-> rc, d |-> rd, c0 |-> center.c0,
                 c1 |-> center.c1, c2 |-> center.c2,
                 koop |-> FDiv(koop, Mk(3, 0)), built |-> ver]
          IN << rec(nb.a, nb.c, nb.d), rec(nb.d, nb.c, nb.a),
                rec(nb.a, nb.d, nb.c) >>

RECURSIVE OOPFrom(_, _, _, _)
OOPFrom(m, grp, b, ver) ==
  IF b > NumAtoms(m) THEN << >>
  ELSE OOPCalculation(m, grp, b, ver) \o OOPFrom(m, grp, b + 1, ver)
OOPCalculations(m, grp, ver) == OOPFrom(m, grp, 1, ver)

\* the pair filter without the 1-3 test of lines 940-942 and 1023-1025
NonBonded_oneThreeKept(m, grp, a, b) ==
  /\ InterValid(grp, a, b)
  /\ ~IsConnected(m, a, b)

\* lines 920-942 and 1003-1025: the pair passes the group masks and is
\* neither bonded nor the two ends of an angle
NonBonded(m, grp, a, b) ==
  /\ InterValid(grp, a, b)
  /\ ~IsConnected(m, a, b)
  /\ ~IsOneThree(m, a, b)

\* lines 914-968
VDWCalculation(m, t, g, ver) ==
  LET parameterA == Param(m, t[1], g)
      parameterB == Param(m, t[2], g)
      Ra == dpar(parameterA, 2)
      Rb == dpar(parameterB, 2)
      kb == dpar(parameterB, 3)
  IN [a |-> t[1], b |-> t[2], Ra |-> Ra, Rb |-> Rb, kb |-> kb,
      kab |-> FMul(KCAL_TO_KJ, sqrt(FMul(dpar(parameterA, 3), kb))),
      ka |-> sqrt(FMul(Ra, Rb)), built |-> ver]

VDWRecords(m, valid, g, ver) ==
  [k \in 1..Len(valid) |-> VDWCalculation(m, valid[k], g, ver)]

VDWCalculations(m, grp, g, ver) ==
  VDWRecords(m, SelectSeq(Pairs(m), LAMBDA t : NonBonded(m, grp, t[1], t[2])),
             g, ver)

\* lines 997-1037
ElectrostaticCalculation(m, t, ver) ==
  [a |-> t[1], b |-> t[2],
   qq |-> F3(FMul(KCAL_TO_KJ, Mk(3320, -1)), GetPartialCharge(m.type[t[1]]),
             GetPartialCharge(m.type[t[2]])),
   built |-> ver]

ElectrostaticRecords(m, valid, ver) ==
  [k \in 1..Len(valid) |-> ElectrostaticCalculation(m, valid[k], ver)]

ElectrostaticCalculations(m, grp, ver) ==
  SelectSeq(ElectrostaticRecords(
              m, SelectSeq(Pairs(m), LAMBDA t : NonBonded(m, grp, t[1], t[2])),
              ver),
            LAMBDA r : r.qq # Zero)

\* SetupCalculations reads a parameter through a null pointer (lines 560,
\* 609-613, 693, 947-950): some atom of a record it builds has no parameters
ReadsNull(m, grp) ==
  \/ \E k \in 1..Len(m.bonds) :
       /\ IntraValid(grp, {m.bonds[k][1], m.bonds[k][2]})
       /\ \E x \in 1..2 : Missing(m, m.bonds[k][x])
  \/ \E k \in 1..Len(m.angles) :
       /\ IntraValid(grp, {m.angles[k][x] : x \in 1..3})
       /\ \E x \in 1..3 : Missing(m, m.angles[k][x])
  \/ \E k \in 1..Len(m.torsions) :
       /\ IntraValid(grp, {m.torsions[k][x] : x \in 1..4})
       /\ \E x \in 2..3 : Missing(m, m.torsions[k][x])
  \/ \E t \in {<<a, b>> : a \in 1..NumAtoms(m), b \in 1..NumAtoms(m)} :
       /\ t[1] < t[2]
       /\ NonBonded(m, grp, t[1], t[2])
       /\ \E x \in 1..2 : Missing(m, t[x])

(***************************************************************************)
(* OBForceFieldUFF::Energy and its terms                                   *)
(*                                                                         *)
(* The positions enter through what the vector functions make of them: a   *)
(* geometry gives the bond length, the angle, the out-of-plane angle and   *)
(* the pair distance every record sees, and for the torsions the angle in  *)
(* degrees between the planes abc and bcd, the dot product of the two      *)
(* plane normals and the product of their lengths.  A force vector is      *)
(* modelled by one component of unit size.                                 *)
(***************************************************************************)
Geometries ==
  { \* staggered: the planes are 60 degrees apart
    [rab |-> Mk(15, -1), theta |-> Mk(120, 0), oop |-> Zero,
     rvdw |-> Mk(3, 0), tor |-> Mk(-60, 0), dotAbbcBccd |-> Mk(5, -1),
     norms |-> Mk(1, 0)],
    \* the planes abc and bcd are perpendicular
    [rab |-> Mk(15, -1), theta |-> Mk(120, 0), oop |-> Mk(30, 0),
     rvdw |-> Mk(3, 0), tor |-> Mk(90, 0), dotAbbcBccd |-> Zero,
     norms |-> Mk(1, 0)],
    \* all atoms on one line: no plane, no torsion, no out-of-plane angle
    [rab |-> Mk(15, -1), theta |-> Mk(180, 0), oop |-> NaN,
     rvdw |-> Mk(3, 0), tor |-> NaN, dotAbbcBccd |-> Zero,
     norms |-> Zero] }

\* the terms of m_terms, in the order Energy evaluates them
Terms == <<"Bond", "Angle", "Torsion", "OOP", "VDW">>
AllTerms == {Terms[k] : k \in 1..Len(Terms)}

IsNearZeroEps(a, epsilon) == FLt(fabs(a), epsilon)
Scaled(F, dE) == [k \in 1..Len(F) |-> FMul(F[k], dE)]

\* what one record adds: its energy e, its atoms and (with gradients) the
\* forces on them after `F *= dE`, unit being the force vectors of the
\* derivative function
Computation(e, atoms, unit, dE, gradients) ==
  [e |-> e, atoms |-> atoms,
   F |-> IF gradients THEN Scaled(unit, dE) ELSE << >>]

\* lines 68-77, delta being rab - r0
BondEnergy(i, delta, gradients) ==
  Computation(FMul(i.kb, FMul(delta, delta)), <<i.a, i.b>>,
              <<Mk(1, 0), Mk(-1, 0)>>, F3(Mk(2, 0), i.kb, delta), gradients)

\* lines 41-94 for one record
BondCompute(i, geo, gradients) ==
  BondEnergy(i, FSub(geo.rab, i.r0), gradients)

\* lines 128-173 for one record
AngleEnergy(i, theta, cosT, sinT, sin2T, gradients) ==
  Computation(
    CASE i.coord = 1 -> FMul(i.ka, FAdd(Mk(1, 0), cosT))
      [] i.coord = 2 ->
           FMul(FDiv(i.ka, Mk(45, -1)),
                FAdd(Mk(1, 0),
                     FMul(FAdd(Mk(1, 0), cosT), FMul(Mk(4, 0), cosT))))
      [] i.coord \in {4, 6} ->
           F3(FMul(i.ka, FAdd(Mk(1, 0), cosT)), cosT, cosT)
      [] OTHER ->
           FMul(i.ka,
                FAdd(FAdd(i.c0, FMul(i.c1, cosT)),
                     FMul(i.c2, FSub(F3(Mk(2, 0), cosT, cosT), Mk(1, 0))))),
    <<i.a, i.b, i.c>>, <<Mk(1, 0), Mk(-2, 0), Mk(1, 0)>>,
    CASE i.coord = 1 -> FNeg(FMul(i.ka, sinT))
      [] i.coord = 2 ->
           FMul(FNeg(FDiv(FMul(i.ka, Mk(4, 0)), Mk(45, -1))),
                FAdd(sinT, sin2T))
      [] i.coord \in {4, 6} ->
           FNeg(FMul(F3(i.ka, cosT, FAdd(Mk(2, 0), FMul(Mk(3, 0), cosT))),
                     sinT))
      [] OTHER ->
           FNeg(FMul(i.ka, FAdd(FMul(i.c1, sinT), F3(Mk(2, 0), i.c2, sin2T)))),
    gradients)

\* lines 126-128
AngleOf(i, theta, gradients) ==
  AngleEnergy(i, theta, cos(theta), sin(theta), sin(FMul(Mk(2, 0), theta)),
              gradients)

\* lines 116-127: VectorAngleDerivative and VectorAngle read the same angle
OrZero(read) == IF ~isfinite(read) THEN Zero ELSE read
AngleCompute(i, geo, gradients) ==
  AngleOf(i, OrZero(FMul(geo.theta, DEG_TO_RAD)), gradients)

\* lines 214-219: the torsion angle of the gradient branch, from
\* VectorTorsionDerivative (degrees)
TorsionOfDerivative(geo) ==
  FMul(IF ~isfinite(geo.tor) THEN Mk(1, -3) ELSE geo.tor, DEG_TO_RAD)

\* lines 229-235, tor being the acos of line 229
Signed(geo, tor) ==
  IF IsNearZero(geo.dotAbbcBccd) \/ ~isfinite(tor) THEN Mk(1, -3)
  ELSE IF FGt(geo.dotAbbcBccd, Zero) THEN FNeg(tor)
  ELSE tor

\* lines 220-236: the torsion angle of the value branch, from the normals
TorsionOfNormals(geo) ==
  Signed(geo, acos(FDiv(geo.dotAbbcBccd, geo.norms)))

\* lines 238-251
TorsionEnergy(i, tor, gradients) ==
  Computation(
    FMul(i.V, FSub(Mk(1, 0), FMul(i.cosNPhi0, cos(FMul(tor, Mk(i.n, 0)))))),
    <<i.a, i.b, i.c, i.d>>, <<Mk(1, 0), Mk(-1, 0), Mk(-1, 0), Mk(1, 0)>>,
    FNeg(FMul(F3(i.V, Mk(i.n, 0), i.cosNPhi0), sin(FMul(Mk(i.n, 0), tor)))),
    gradients)

\* lines 208-253 for one record
TorsionCompute(i, geo, gradients) ==
  TorsionEnergy(i, IF gradients THEN TorsionOfDerivative(geo)
                   ELSE TorsionOfNormals(geo), gradients)

\* lines 306-324
OOPEnergy(i, angle, gradients) ==
  Computation(
    FMul(i.koop,
         FAdd(FAdd(i.c0, FMul(i.c1, cos(angle))),
              FMul(i.c2, cos(FMul(Mk(2, 0), angle))))),
    <<i.a, i.b, i.c, i.d>>, <<Mk(1, 0), Mk(-3, 0), Mk(1, 0), Mk(1, 0)>>,
    FMul(i.koop,
         FAdd(FMul(i.c1, sin(angle)),
              F3(Mk(2, 0), i.c2, sin(FMul(Mk(2, 0), angle))))),
    gradients)

\* lines 295-325 for one record: VectorOOPDerivative and VectorOOP read the
\* same angle
OOPCompute(i, geo, gradients) ==
  OOPEnergy(i, OrZero(FMul(geo.oop, DEG_TO_RAD)), gradients)

\* lines 387-399
VDWEnergy(i, term, term6, term12, gradients) ==
  Computation(
    FMul(i.kab, FSub(term12, FMul(Mk(2, 0), term6))), <<i.a, i.b>>,
    <<Mk(1, 0), Mk(-1, 0)>>,
    F3(i.kab, Mk(12, 0),
       FSub(FDiv(FMul(term, term6), i.ka), FDiv(FMul(term, term12), i.ka))),
    gradients)

\* lines 383-386
VDWPowers(i, term, term6, gradients) ==
  VDWEnergy(i, term, term6, FMul(term6, term6), gradients)
VDWTerm(i, term, gradients) ==
  VDWPowers(i, term, pow2(F3(term, term, term)), gradients)

\* lines 360-402 for one record (the cut-off is not enabled)
VDWCompute(i, geo, gradients) ==
  VDWTerm(i, FDiv(i.ka, IF IsNearZeroEps(geo.rvdw, Mk(1, -3)) THEN Mk(1, -3)
                        ELSE geo.rvdw),
          gradients)

\* lines 448-460 for one record
ElectrostaticEnergy(i, rab, gradients) ==
  Computation(FDiv(i.qq, rab), <<i.a, i.b>>, <<Mk(1, 0), Mk(-1, 0)>>,
              FNeg(FDiv(i.qq, FMul(rab, rab))), gradients)

\* lines 432-462 for one record (the cut-off is not enabled)
ElectrostaticCompute(i, geo, gradients) ==
  ElectrostaticEnergy(i, IF IsNearZeroEps(geo.rvdw, Mk(1, -3)) THEN Mk(1, -3)
                         ELSE geo.rvdw,
                      gradients)

\* one record of a term
Compute(term, i, geo, gradients) ==
  CASE term = "Bond" -> BondCompute(i, geo, gradients)
    [] term = "Angle" -> AngleCompute(i, geo, gradients)
    [] term = "Torsion" -> TorsionCompute(i, geo, gradients)
    [] term = "OOP" -> OOPCompute(i, geo, gradients)
    [] term = "VDW" -> VDWCompute(i, geo, gradients)

\* the records of one term, computed in list order
Computed(term, lists, geo, gradients) ==
  [k \in 1..Len(lists[term]) |-> Compute(term, lists[term][k], geo, gradients)]

\* `energy += e` over the records of a term (lines 79, 175, 253, 325, 402)
RECURSIVE SumEnergy(_, _, _)
SumEnergy(done, k, energy) ==
  IF k > Len(done) THEN energy
  ELSE SumEnergy(done, k + 1, FAdd(energy, done[k].e))

\* lines 415-477: the energy of the electrostatic list
E_Electrostatic(lists, geo, gradients) ==
  SumEnergy([k \in 1..Len(lists.Electrostatic) |->
               ElectrostaticCompute(lists.Electrostatic[k], geo, gradients)],
            1, Zero)

\* `GetGradients()[idx] = F` in place of `+=`
RECURSIVE AddForce_overwriting(_, _, _, _)
AddForce_overwriting(g, atoms, F, k) ==
  IF k > Len(F) THEN g
  ELSE AddForce_overwriting([g EXCEPT ![atoms[k]] = F[k]], atoms, F, k + 1)

\* `GetGradients()[idx] += F` for the atoms of one record (lines 76-77,
\* 170-172, 247-250, 311-314, 398-399)
RECURSIVE AddForce(_, _, _, _)
AddForce(g, atoms, F, k) ==
  IF k > Len(F) THEN g
  ELSE AddForce([g EXCEPT ![atoms[k]] = FAdd(@, F[k])], atoms, F, k + 1)

RECURSIVE AddForces(_, _, _)
AddForces(g, done, k) ==
  IF k > Len(done) THEN g
  ELSE AddForces(AddForce(g, done[k].atoms, done[k].F, 1), done, k + 1)

\* ClearGradients()
ClearGradients(g) == [k \in 1..Len(g) |-> Zero]

\* the parameter `gradients` passed on to the terms of the value branch, were
\* it true
ValueBranch_withGradients == TRUE

\* lines 1202-1213: the value branch instantiates every term with
\* gradients = false
ValueBranch == FALSE

\* lines 1192-1201 and 1203-1212 for the k-th term, whose records are done:
\* the first term assigns the energy, the others add to it
RECURSIVE EnergyFrom(_, _, _, _, _, _, _)
RECURSIVE EnergyAfter(_, _, _, _, _, _, _, _)
EnergyAfter(k, enabled, lists, geo, gradients, energy, g, done) ==
  EnergyFrom(k + 1, enabled, lists, geo, gradients,
             IF k = 1 THEN SumEnergy(done, 1, Zero)
             ELSE FAdd(energy, SumEnergy(done, 1, Zero)),
             AddForces(g, done, 1))

\* the test of a term, were every term taken as enabled
TermEnabled_always(enabled, term) == TRUE

\* `m_terms & BondTerm` and the like (lines 1192-1212)
TermEnabled(enabled, term) == term \in enabled

\* lines 1190-1213 from the k-th term on: energy and gradient array after the
\* enabled terms have run
EnergyFrom(k, enabled, lists, geo, gradients, energy, g) ==
  IF k > Len(Terms) THEN [energy |-> energy, g |-> g]
  ELSE IF ~TermEnabled(enabled, Terms[k])
       THEN EnergyFrom(k + 1, enabled, lists, geo, gradients, energy, g)
       ELSE EnergyAfter(k, enabled, lists, geo, gradients, energy, g,
                        Computed(Terms[k], lists, geo, gradients))

\* lines 1183-1225
Energy(enabled, lists, geo, gradients, g) ==
  IF gradients
  THEN EnergyFrom(1, enabled, lists, geo, TRUE, Zero, ClearGradients(g))
  ELSE EnergyFrom(1, enabled, lists, geo, ValueBranch, Zero, g)

(***************************************************************************)
(* OBForceFieldUFF: the operations on a force field                        *)
(***************************************************************************)
MaxEdits == 1
MaxDisabled == 5

NoCalcs ==
  [Bond |-> << >>, Angle |-> << >>, Torsion |-> << >>, OOP |-> << >>,
   VDW |-> << >>, Electrostatic |-> << >>]

\* status: "ready", or "crashed" once a read through a null pointer has
\* ended the process.  topology counts the changes of the molecule, current
\* tells whether SetupCalculations has returned since the last one.  lastOp,
\* ret and energy describe the last operation; repeat tells that it was a
\* SetupCalculations directly after a SetupCalculations that returned, and
\* before then holds the lists the first of the two had left.  dirty tells
\* that the gradient array held a non-zero entry when the last operation, an
\* Energy call, began.  bad is the mismatch between numerical and analytical
\* gradient that the last operation, a ValidateGradients call, was given, and
\* examined the number of atoms it went through.
\* no component of any term is off
NoMismatch == [term |-> "none", level |-> 0, atom |-> 0]

UFF0 ==
  [status |-> "ready", topology |-> 0, current |-> FALSE, lastOp |-> "none",
   ret |-> "none", energy |-> Zero, before |-> NoCalcs, repeat |-> FALSE,
   dirty |-> FALSE, bad |-> NoMismatch, examined |-> 0]

Done(u, op, r, e) ==
  LET again == op = "SetupCalculations" /\ u.lastOp = op /\ u.ret = "true"
  IN [u EXCEPT !.lastOp = op, !.ret = r, !.energy = e, !.repeat = again,
               !.before = IF again THEN calcs ELSE NoCalcs,
               !.dirty = FALSE, !.bad = NoMismatch, !.examined = 0]

\* lines 509-974.  The electrostatic list is not touched (lines 970-971); the
\* function has the single exit `return true` (line 973).
SetupCalculations ==
  /\ uff.status = "ready"
  /\ \/ /\ ReadsNull(mol, groups)
        /\ uff' = [Done(uff, "SetupCalculations", "none", Zero)
                     EXCEPT !.status = "crashed"]
        /\ UNCHANGED calcs
     \/ \E g \in GarbageParameters, u \in GarbageTorsion :
          /\ calcs' =
               [calcs EXCEPT
                  !.Bond = BondCalculations(mol, groups, g, uff.topology),
                  !.Angle = AngleCalculations(mol, groups, g, uff.topology),
                  !.Torsion = TorsionCalculations(mol, groups, g,
                                                  uff.topology, u),
                  !.OOP = OOPCalculations(mol, groups, uff.topology),
                  !.VDW = VDWCalculations(mol, groups, g, uff.topology)]
          /\ uff' = [Done(uff, "SetupCalculations", "true", Zero)
                       EXCEPT !.current = TRUE]
  /\ UNCHANGED <<mol, groups, geom, m_terms, m_gradients>>
  /\ UNCHANGED <<minvars, electro>>

\* lines 976-1039
SetupElectrostatics ==
  /\ uff.status = "ready"
  /\ calcs' = [calcs EXCEPT !.Electrostatic =
                 ElectrostaticCalculations(mol, groups, uff.topology)]
  /\ uff' = Done(uff, "SetupElectrostatics", "true", Zero)
  /\ UNCHANGED <<mol, groups, geom, m_terms, m_gradients>>
  /\ UNCHANGED <<minvars, electro>>

\* the caller edits the molecule: its last atom is deleted.  The lists keep
\* what the last setup calls built.
ChangeTopology ==
  /\ uff.status = "ready"
  /\ uff.topology < MaxEdits
  /\ NumAtoms(mol) > 3
  /\ mol' = RemoveLastAtom(mol)
  /\ m_gradients' = SubSeq(m_gradients, 1, NumAtoms(mol) - 1)
  /\ uff' = [Done(uff, "ChangeTopology", "none", Zero)
               EXCEPT !.topology = @ + 1, !.current = FALSE]
  /\ UNCHANGED <<groups, geom, calcs, m_terms>>
  /\ UNCHANGED <<minvars, electro>>

\* SetTermEnabled(term, enable) on m_terms
SetTermEnabled ==
  /\ uff.status = "ready"
  /\ \E term \in AllTerms, enable \in BOOLEAN :
       /\ m_terms' = IF enable THEN m_terms \cup {term} ELSE m_terms \ {term}
       /\ m_terms' # m_terms
       /\ Cardinality(AllTerms \ m_terms') <= MaxDisabled
  /\ uff' = Done(uff, "SetTermEnabled", "none", Zero)
  /\ UNCHANGED <<mol, groups, geom, calcs, m_gradients>>
  /\ UNCHANGED <<minvars, electro>>

\* Energy returns r.energy and leaves r.g in the gradient array
EnergyReturns(op, r) ==
  /\ m_gradients' = r.g
  /\ uff' = [Done(uff, op, "none", r.energy)
               EXCEPT !.dirty = m_gradients # ClearGradients(m_gradients)]
  /\ UNCHANGED <<mol, groups, geom, calcs, m_terms>>
  /\ UNCHANGED <<minvars, electro>>

\* Energy(true), lines 1183-1225, on lists built for the molecule as it is
EnergyGradients ==
  /\ uff.status = "ready"
  /\ uff.current
  /\ \E r \in {Energy(m_terms, calcs, geom, TRUE, m_gradients)} :
       EnergyReturns("Energy(true)", r)

\* Energy(false)
EnergyValue ==
  /\ uff.status = "ready"
  /\ uff.current
  /\ \E r \in {Energy(m_terms, calcs, geom, FALSE, m_gradients)} :
       EnergyReturns("Energy(false)", r)

(***************************************************************************)
(* OBForceFieldUFF::ValidateGradients (lines 1237-1362)                    *)
(*                                                                         *)
(* NumericalDerivative and ValidateGradientError give, for an atom and a   *)
(* term, the relative error in percent of the worst component.  The errors *)
(* are an input: all are zero but for one atom and one term, where the     *)
(* error is one of ErrorLevels.                                            *)
(***************************************************************************)
ErrorLevels == {6, 9}
Components == <<"Bond", "Angle", "Torsion", "OOP", "VDW", "Electrostatic">>
Mismatches(m) ==
  {NoMismatch} \cup
  [term : {Components[k] : k \in 1..Len(Components)}, level : ErrorLevels,
   atom : {1, NumAtoms(m)}]

\* the relative error of a term on an atom
ValidateGradientError(bad, idx, term) ==
  IF bad.atom = idx /\ bad.term = term THEN bad.level ELSE 0

\* lines 1276, 1291, 1337: `if (err.x() > 5.0 ...) passed = false` for the
\* bond, angle and van der Waals terms, 8.0 for the torsion term (1307); no
\* test for the out-of-plane term (1322-1323) and none for the
\* electrostatic term, whose block is a comment (1340-1355)
Fails(bad, idx) ==
  \/ ValidateGradientError(bad, idx, "Bond") > 5
  \/ ValidateGradientError(bad, idx, "Angle") > 5
  \/ ValidateGradientError(bad, idx, "Torsion") > 8
  \/ ValidateGradientError(bad, idx, "VDW") > 5

\* SetAllTermsEnabled(false), line 1262, and SetAllTermsEnabled(true), 1357
SetAllTermsEnabled(enable) == IF enable THEN AllTerms ELSE {}

\* lines 1249-1358 from atom idx on: v.passed, the enabled terms v.terms and
\* the atoms examined so far.  Every pass ends with every term enabled.
RECURSIVE ValidateFrom(_, _, _, _)
ValidateFrom(v, idx, n, bad) ==
  IF idx > n THEN v
  ELSE ValidateFrom([passed |-> v.passed /\ ~Fails(bad, idx),
                     terms |-> SetAllTermsEnabled(TRUE),
                     examined |-> v.examined + 1],
                    idx + 1, n, bad)

\* what the last pass leaves in the gradient array: ClearGradients() and
\* E_VDW() (lines 1329-1331)
LastGradients(lists, geo, g) ==
  AddForces(ClearGradients(g), Computed("VDW", lists, geo, TRUE), 1)

ValidateReturns(v, bad) ==
  /\ m_terms' = v.terms
  /\ uff' = [Done(uff, "ValidateGradients",
                  IF v.passed THEN "true" ELSE "false", Zero)
               EXCEPT !.bad = bad, !.examined = v.examined]

ValidateGradients ==
  /\ uff.status = "ready"
  /\ uff.current
  /\ \E bad \in Mismatches(mol) :
       ValidateReturns(
         ValidateFrom([passed |-> TRUE, terms |-> m_terms, examined |-> 0],
                      1, NumAtoms(mol), bad),
         bad)
  /\ m_gradients' = LastGradients(calcs, geom, m_gradients)
  /\ UNCHANGED <<mol, groups, geom, calcs>>
  /\ UNCHANGED <<minvars, electro>>

(***************************************************************************)
(* MMFF94ElectroTermOpenCL (src/forcefields/mmff94/electro_opencl.cpp)     *)
(*                                                                         *)
(* The term works on the molecule mol and adds to the gradient array       *)
(* m_gradients of its function.  Positions, gradients and forces have one  *)
(* component; atoms are numbered from 1.  The kernel is not part of the    *)
(* sources: what the device returns is an input.                           *)
(***************************************************************************)
MaxSetups == 2
MaxComputes == 2

\* the members after the constructor (lines 37-40), and the history: the
\* last operation with its result, the device operation that failed in it,
\* the energy and the gradient entries it took from the host buffer, and the
\* pair lists as the last Setup found them
Electro0 ==
  [numAtoms |-> 0, selfPairs |-> << >>, oneFourPairs |-> << >>,
   value |-> Mk(9999, 2), device |-> FALSE, setups |-> 0, computes |-> 0,
   lastOp |-> "none", ret |-> "none", fail |-> "none", devEnergy |-> Zero,
   added |-> << >>, before |-> [selfPairs |-> << >>, oneFourPairs |-> << >>]]

\* m_function->GetPositions() and m_common->m_pCharges
Positions(m) == [i \in 1..NumAtoms(m) |-> Mk(15 * i, -1)]
Charges(m) == [i \in 1..NumAtoms(m) |-> GetPartialCharge(m.type[i])]

\* OBAtom::IsOneFour: the ends of a path of three bonds
IsOneFour(m, a, b) ==
  /\ a # b
  /\ \E x, y \in 1..NumAtoms(m) :
       /\ x # b /\ y # a /\ x # y
       /\ IsConnected(m, a, x) /\ IsConnected(m, x, y) /\ IsConnected(m, y, b)

\* lines 114-115: the pairs <<i, j>> in the order of the two loops
LoopPairs(n) ==
  [k \in 1..(n * n) |-> <<((k - 1) \div n) + 1, ((k - 1) % n) + 1>>]

\* lines 116-127
SelfPair(m, t) ==
  t[1] = t[2] \/ IsConnected(m, t[1], t[2]) \/ IsOneThree(m, t[1], t[2])
OneFourPair(m, t) == ~SelfPair(m, t) /\ IsOneFour(m, t[1], t[2])

\* lines 110-132: the pairs are pushed onto the lists as they are
InitSelfPairs(m, e) ==
  [e EXCEPT
     !.selfPairs = @ \o SelectSeq(LoopPairs(NumAtoms(m)),
                                  LAMBDA t : SelfPair(m, t)),
     !.oneFourPairs = @ \o SelectSeq(LoopPairs(NumAtoms(m)),
                                     LAMBDA t : OneFourPair(m, t))]

\* how the try block of Setup ends (lines 255-314): the buffers are created,
\* no device is found, kernel.cl cannot be opened, or an OpenCL call throws
SetupOutcomes == {"ok", "no device", "no kernel file", "error"}

\* lines 240-317
ElectroSetup ==
  /\ electro.setups < MaxSetups
  /\ \E outcome \in SetupOutcomes :
       electro' =
         [InitSelfPairs(mol, electro) EXCEPT
            !.numAtoms = NumAtoms(mol),
            !.device = (outcome = "ok"),
            !.setups = @ + 1,
            !.lastOp = "Setup",
            !.ret = IF outcome \in {"no device", "no kernel file"}
                    THEN "false" ELSE "true",
            !.fail = "none", !.devEnergy = Zero, !.added = << >>,
            !.before = [selfPairs |-> electro.selfPairs,
                        oneFourPairs |-> electro.oneFourPairs]]
  /\ UNCHANGED <<mol, groups, geom, calcs, m_terms, m_gradients, uff>>
  /\ UNCHANGED minvars

\* the value a function returns that ends without a return statement: the
\* value it has just computed, or another
IndeterminateReturns == {"e", "other"}

\* lines 134-139
electroEnergy(ai, aj, qi, qj, r) ==
  IF r = "e" THEN FDiv(FMul(qi, qj), FAdd(fabs(FSub(ai, aj)), Mk(5, -2)))
  ELSE Mk(7, 0)

\* `E += factor * electroEnergy(...)` over a pair list (lines 164-180)
RECURSIVE SelfSum(_, _, _, _, _, _, _)
SelfSum(x, q, pairs, k, factor, r, E) ==
  IF k > Len(pairs) THEN E
  ELSE SelfSum(x, q, pairs, k + 1, factor, r,
               FAdd(E, FMul(factor,
                            electroEnergy(x[pairs[k][1]], x[pairs[k][2]],
                                          q[pairs[k][1]], q[pairs[k][2]],
                                          r))))

\* lines 158-184
ComputeSelfEnergy(x, q, e, r) ==
  SelfSum(x, q, e.oneFourPairs, 1, Mk(25, -2), r,
          SelfSum(x, q, e.selfPairs, 1, Mk(1, 0), r, Zero))

\* lines 198-210 and 219-231 for the pair <<i, j>>: rv is ai - aj, QiQj the
\* product of the charges, dist the distance plus 0.05
SelfForce(acc, i, j, rv, QiQj, dist, oneFour) ==
  [E |-> FAdd(acc.E, IF oneFour THEN FMul(Mk(25, -2), FDiv(QiQj, dist))
                     ELSE FDiv(QiQj, dist)),
   g |-> AddForce(acc.g, <<i, j>>,
                  <<FMul(rv, IF oneFour
                             THEN FDiv(F3(Mk(-25, -2), Mk(3320, -1), QiQj),
                                       FMul(dist, dist))
                             ELSE FDiv(FMul(Mk(3320, -1), QiQj),
                                       F3(dist, dist, dist))),
                    FNeg(FMul(rv, IF oneFour
                                  THEN FDiv(F3(Mk(-25, -2), Mk(3320, -1),
                                               QiQj),
                                            FMul(dist, dist))
                                  ELSE FDiv(FMul(Mk(3320, -1), QiQj),
                                            F3(dist, dist, dist))))>>,
                  1)]

RECURSIVE SelfForces(_, _, _, _, _, _)
SelfForces(x, q, pairs, k, oneFour, acc) ==
  IF k > Len(pairs) THEN acc
  ELSE SelfForces(x, q, pairs, k + 1, oneFour,
                  SelfForce(acc, pairs[k][1], pairs[k][2],
                            FSub(x[pairs[k][1]], x[pairs[k][2]]),
                            FMul(q[pairs[k][1]], q[pairs[k][2]]),
                            FAdd(fabs(FSub(x[pairs[k][1]], x[pairs[k][2]])),
                                 Mk(5, -2)),
                            oneFour))

\* lines 186-236: the self energy, and the gradient array g with the forces
\* of the pairs added
ComputeSelfGradients(x, q, e, g) ==
  SelfForces(x, q, e.oneFourPairs, 1, TRUE,
             SelfForces(x, q, e.selfPairs, 1, FALSE, [E |-> Zero, g |-> g]))

\* the conversion of a double to cl_float (lines 53-56): a digit of the
\* mantissa is lost
cl_float(a) ==
  IF a.k # "fin" \/ a = Zero THEN a
  ELSE Mk(Sgn(a.m) * (IAbs(a.m) \div 10), a.e + 1)

\* lines 49-57: hostData holds position (x) and charge (w) of every atom
HostInput(m) ==
  [i \in 1..NumAtoms(m) |->
     [x |-> cl_float(Positions(m)[i]), w |-> cl_float(Charges(m)[i])]]

\* what the kernel leaves in m_devGrad: gradient (x) and energy (w) of every
\* atom
DeviceOutputs(m) ==
  {[i \in 1..NumAtoms(m) |-> [x |-> gx, w |-> Mk(2, 0)]] :
     gx \in {Zero, Mk(3, 0)}}

\* the device operation of lines 62-74 that throws, if any
Failures == {"none", "write", "kernel", "read"}

\* hostData after the try block and its catch (lines 62-77): the results
\* when nothing failed, the input when the write or the kernel failed, and
\* after a failed read the input with or without a part of the results
HostData(fail, input, output) ==
  IF fail = "none" THEN {output}
  ELSE IF fail \in {"write", "kernel"} THEN {input}
  ELSE {input,
        [i \in 1..Len(input) |-> IF i = 1 THEN output[i] ELSE input[i]]}

\* lines 81-85
AddHost(g, host) == [i \in 1..Len(g) |-> FAdd(g[i], host[i].x)]

\* line 87
RECURSIVE SumW(_, _, _)
SumW(host, k, devEnergy) ==
  IF k > Len(host) THEN devEnergy
  ELSE SumW(host, k + 1, FAdd(devEnergy, host[k].w))

\* line 98, and the end of Compute
ComputeReturns(op, fail, host, devEnergy, selfEnergy, g) ==
  /\ m_gradients' = g
  /\ electro' =
       [electro EXCEPT
          !.value = F3(Mk(5, -1), Mk(3320, -1), FSub(devEnergy, selfEnergy)),
          !.computes = @ + 1, !.lastOp = op, !.ret = "void", !.fail = fail,
          !.devEnergy = devEnergy,
          !.added = [i \in 1..Len(host) |-> host[i].x]]
  /\ UNCHANGED <<mol, groups, geom, calcs, m_terms, uff>>
  /\ UNCHANGED minvars

\* lines 47-77 of a Compute call on a term that has been set up: the
\* failure, if any, and hostData after it; without queue and buffers the
\* first device operation, the write, fails
ComputeHost ==
  {h \in [fail : Failures, host : UNION {HostData(f, HostInput(mol), o) :
                                         f \in Failures,
                                         o \in DeviceOutputs(mol)}] :
     /\ electro.device \/ h.fail = "write"
     /\ \E o \in DeviceOutputs(mol) :
          h.host \in HostData(h.fail, HostInput(mol), o)}

\* Compute(OBFunction::Value), lines 42-108
ElectroComputeValue ==
  /\ electro.setups >= 1
  /\ electro.computes < MaxComputes
  /\ \E h \in ComputeHost, r \in IndeterminateReturns :
       ComputeReturns("Compute(Value)", h.fail, h.host,
                      SumW(h.host, 1, Zero),
                      ComputeSelfEnergy(Positions(mol), Charges(mol),
                                        electro, r),
                      AddHost(m_gradients, h.host))

GradientsReturn(h, devEnergy, self) ==
  ComputeReturns("Compute(Gradients)", h.fail, h.host, devEnergy, self.E,
                 self.g)

\* Compute(OBFunction::Gradients)
ElectroComputeGradients ==
  /\ electro.setups >= 1
  /\ electro.computes < MaxComputes
  /\ \E h \in ComputeHost :
       GradientsReturn(h, SumW(h.host, 1, Zero),
                       ComputeSelfGradients(Positions(mol), Charges(mol),
                                            electro,
                                            AddHost(m_gradients, h.host)))

(***************************************************************************)
(* Specification                                                           *)
(***************************************************************************)
\* lines 45-48: a minimizer on a function of 1..MaxAtoms atoms.  The
\* constructor does not set d->linesearch: it holds what SetLineSearchType
\* (lines 61-64) stored before the run or whatever the allocation held, and
\* the switch at lines 282-290 takes every value but Newton2Num for Simple.
Init ==
  /\ \E n \in 1..MaxAtoms : pos = [c \in 1..n |-> Mk(c, 0)]
  /\ grad = [c \in 1..Len(pos) |-> Zero]
  /\ value = Zero
  /\ efun = << >>
  /\ gfun = << >>
  /\ \E type \in LineSearchTypes :
       d = [econv |-> Zero, e_n1 |-> Zero, cstep |-> 0, nsteps |-> 0,
            grad1 |-> << >>, linesearch |-> type]
  /\ pc = "idle"
  /\ call = Call0
  /\ ret = "none"
  /\ ls = LS0
  /\ obs = Obs0
  /\ mol = Star("C_2", 3)
  /\ groups = NoGroups
  /\ geom \in {x \in Geometries : x.tor = Mk(90, 0)}
  /\ calcs = NoCalcs
  /\ m_terms = AllTerms
  /\ m_gradients = [c \in 1..NumAtoms(mol) |-> Zero]
  /\ uff = UFF0
  /\ electro = Electro0

Next ==
  \/ SteepestDescentInitialize /\ UNCHANGED uffvars
  \/ SteepestDescentTakeNSteps /\ UNCHANGED uffvars
  \/ SteepestDescent /\ UNCHANGED uffvars
  \/ SDTop /\ UNCHANGED uffvars
  \/ SDAfter /\ UNCHANGED uffvars
  \/ ConjugateGradientsInitialize /\ UNCHANGED uffvars
  \/ ConjugateGradientsTakeNSteps /\ UNCHANGED uffvars
  \/ ConjugateGradients /\ UNCHANGED uffvars
  \/ CGInitLineSearch /\ UNCHANGED uffvars
  \/ CGInitAfter /\ UNCHANGED uffvars
  \/ CGTop /\ UNCHANGED uffvars
  \/ CGAfter /\ UNCHANGED uffvars
  \/ NwE1 /\ UNCHANGED uffvars
  \/ NwE2 /\ UNCHANGED uffvars
  \/ NwE3 /\ UNCHANGED uffvars
  \/ NwE4 /\ UNCHANGED uffvars
  \/ LsE0 /\ UNCHANGED uffvars
  \/ LsE /\ UNCHANGED uffvars

Spec == Init /\ [][Next]_vars

\* A force field on a molecule of the family, before any setup call: the
\* constructor enables every term and the gradient array holds zeros.  No
\* minimizer runs on it.
InitForceField ==
  /\ pos = <<Mk(1, 0)>>
  /\ grad = <<Zero>>
  /\ value = Zero
  /\ efun = << >>
  /\ gfun = << >>
  /\ d = [econv |-> Zero, e_n1 |-> Zero, cstep |-> 0, nsteps |-> 0,
          grad1 |-> << >>, linesearch |-> "Simple"]
  /\ pc = "idle"
  /\ call = Call0
  /\ ret = "none"
  /\ ls = LS0
  /\ obs = Obs0
  /\ mol \in Molecules
  /\ calcs = NoCalcs
  /\ m_terms = AllTerms
  /\ m_gradients = [c \in 1..NumAtoms(mol) |-> Zero]
  /\ uff = UFF0
  /\ electro = Electro0

\* The setup calls on every molecule and group configuration, with changes of
\* the molecule between them.
InitSetup ==
  /\ InitForceField
  /\ groups \in GroupSet
  /\ geom \in {x \in Geometries : x.tor = Mk(90, 0)}

NextSetup ==
  \/ SetupCalculations
  \/ SetupElectrostatics
  \/ ChangeTopology

SpecSetup == InitSetup /\ [][NextSetup]_vars

\* Energy evaluations on every molecule and geometry, without groups, with
\* terms switched off and on between them; the lists are set up once.
InitEnergy ==
  /\ InitForceField
  /\ groups = NoGroups
  /\ geom \in Geometries

SetupOnce == ~uff.current /\ SetupCalculations

NextEnergy ==
  \/ SetupOnce
  \/ SetTermEnabled
  \/ EnergyGradients
  \/ EnergyValue

SpecEnergy == InitEnergy /\ [][NextEnergy]_vars

\* a force field whose user also sets up the electrostatic list, with every
\* term enabled
NextElectrostatics ==
  \/ SetupOnce
  \/ SetupElectrostatics
  \/ EnergyGradients
  \/ EnergyValue

SpecElectrostatics == InitEnergy /\ [][NextElectrostatics]_vars

\* gradient validation on a force field that has been set up, with any of
\* its terms enabled or disabled
InitValidate ==
  /\ InitForceField
  /\ groups = NoGroups
  /\ geom \in {x \in Geometries : x.tor = Mk(-60, 0)}

NextValidate ==
  \/ SetupOnce
  \/ SetTermEnabled
  \/ ValidateGradients

SpecValidate == InitValidate /\ [][NextValidate]_vars

\* the accelerator electrostatic term on the molecules of the family
NextOpenCL ==
  \/ ElectroSetup
  \/ ElectroComputeValue
  \/ ElectroComputeGradients

SpecOpenCL == InitValidate /\ [][NextOpenCL]_vars

(***************************************************************************)
(* Properties                                                              *)
(***************************************************************************)
\* a line search has just returned to the minimizer
LineSearchReturned == obs.lsDone

\* a call of a TakeNSteps method has returned false
ReturnedFalse == pc = "idle" /\ ret = "false" /\ call.fn \in {"sd", "cg"}

\* the running line search was started by a conjugate gradients step that
\* mixes in the previous direction
BetaStep == ls.cg /\ d.cstep % N # 0

\* C1: when a line search (either kind) returns, the energy of the positions
\* it leaves in place is at most the energy of the positions it started from.
C1_NeverRaisesEnergy ==
  LineSearchReturned => FLe(obs.lsEndE, obs.lsStartE)

\* C2: a full run, SteepestDescent(steps, econv) or
\* ConjugateGradients(steps, econv), starts at most `steps` line searches.
C2_SearchesWithinBudget ==
  call.full => obs.lsRun <= d.nsteps

\* C3 as stated: after TakeNSteps returns false, cstep == nsteps exactly when
\* the run stopped on the exhausted budget, and cstep < nsteps exactly when it
\* stopped because the energy change was within the tolerance.
C3_CounterTellsReason ==
  ReturnedFalse =>
    /\ (d.cstep = d.nsteps) <=> (obs.reason = "exhausted")
    /\ (d.cstep < d.nsteps) <=> (obs.reason = "converged")

\* C3 amended: after TakeNSteps returns false, a stop on the exhausted budget
\* has cstep == nsteps, and cstep # nsteps means the run stopped on
\* convergence; cstep == nsteps alone does not tell the two apart.
C3_CounterBoundsReason ==
  ReturnedFalse =>
    /\ obs.reason \in {"converged", "exhausted"}
    /\ obs.reason = "exhausted" => d.cstep = d.nsteps
    /\ d.cstep # d.nsteps => obs.reason = "converged"

\* a run of two steps that stopped on the exhausted budget
C3_Witness ==
  ReturnedFalse /\ obs.reason = "exhausted" /\ d.cstep = 2 /\ d.nsteps = 2

\* C4: TakeNSteps called right after Initialize on a geometry whose gradient
\* is zero on every atom, with a positive econv, returns false (converged) in
\* its first step, with cstep == 1 and the positions unchanged.
C4_ZeroGradientConverges ==
  (call.zeroStart /\ FGt(d.econv, Zero)) =>
    /\ d.cstep <= 1
    /\ call.i <= 1
    /\ pc = "idle" =>
         /\ ret = "false"
         /\ obs.reason = "converged"
         /\ d.cstep = 1
         /\ pos = call.pos0

\* conjugate gradients on two atoms of zero gradient (beta is 0/0) converged
\* in its first step
C4_Witness ==
  /\ call.zeroStart /\ call.fn = "cg" /\ N = 2
  /\ pc = "idle" /\ ret = "false" /\ d.cstep = 1 /\ pos = call.pos0

RECURSIVE Dot(_, _, _)
Dot(a, b, c) == IF c = 0 THEN Zero ELSE FAdd(Dot(a, b, c - 1), FMul(a[c], b[c]))

\* Fletcher-Reeves: (g_new . g_new) / (g_old . g_old), summed over all atoms
FletcherReeves(g_new, g_old) ==
  FDiv(Dot(g_new, g_new, Len(g_new)), Dot(g_old, g_old, Len(g_old)))

\* C5: in a step that mixes in the previous direction, one beta, the
\* Fletcher-Reeves ratio over all atoms, multiplies every atom's contribution.
C5_OneBetaForAllAtoms ==
  BetaStep =>
    obs.lastDir = [idx \in Atoms |->
                     FAdd(ls.cgGrad[idx],
                          FMul(FletcherReeves(ls.cgGrad, ls.cgOld), ls.cgOld[idx]))]

\* C6: in a step that mixes in the previous direction, the vector scaled by
\* beta is the direction passed to the line search of the preceding step.
C6_MixesPreviousDirection ==
  BetaStep => ls.cgOld = ls.prevDir

\* C7: a conjugate gradients step whose cstep is a multiple of the atom count
\* passes the gradient array itself to the line search; every other step
\* adds beta times the stored vector.
C7_ResetEveryNSteps ==
  ls.cg =>
    obs.lastDir =
      IF d.cstep % N = 0
      THEN grad
      ELSE [idx \in Atoms |->
              FAdd(grad[idx],
                   FMul(FDiv(squaredNorm(grad[idx]), squaredNorm(ls.cgOld[idx])),
                        ls.cgOld[idx]))]

\* the second step on two atoms is a reset step that follows a mixing step
C7_Witness ==
  /\ ls.cg /\ N = 2 /\ d.cstep = 2
  /\ obs.lastDir = grad /\ grad # ZeroVec /\ ls.cgOld # ZeroVec

\* C8: in LineSearch, no trial moves an atom further than the trust radius 0.3.
C8_TrialWithinTrustRadius ==
  pc = "ls_e" =>
    \A c \in 1..Len(ls.lastDisp) : FLe(fabs(ls.lastDisp[c]), Mk(3, -1))

\* C9: one call of Newton2NumLineSearch recomputes the step at most 3 times.
C9_AtMostThreeRefinements ==
  ls.refines <= 3

\* C10: the displacement Newton2NumLineSearch leaves applied, the committed
\* step times the true norm of the direction, is at most 5.0.
C10_NetDisplacementBounded ==
  (LineSearchReturned /\ obs.lsType = "Newton2Num") =>
    FLe(obs.lsNetDisp, Mk(5, 0))

\* C11: when Newton2NumLineSearch returns, either opt_step is 0 and the
\* positions are those saved at entry, or the positions are at a step whose
\* energy was evaluated and found strictly lower than the energy of the
\* positions at entry: positions that differ from those at entry have a
\* strictly lower energy.
C11_NewtonCommitsImprovement ==
  (LineSearchReturned /\ obs.lsType = "Newton2Num") =>
    /\ obs.lsApplied = Zero => ~obs.lsMoved
    /\ obs.lsMoved => FLt(obs.lsEndE, obs.lsStartE)

\* C12: the value LineSearch returns is the sum of the step sizes of the
\* trials whose displacement is still applied at return; a return value of 0
\* means the positions are those at entry.
C12_AlphaIsDistanceMoved ==
  (LineSearchReturned /\ obs.lsType = "Simple") =>
    /\ obs.lsMoved => obs.lsRet = obs.lsApplied
    /\ obs.lsRet = Zero => ~obs.lsMoved

(***************************************************************************)
(* OBForceFieldUFF: properties                                             *)
(***************************************************************************)
SetupReturned == uff.lastOp = "SetupCalculations" /\ uff.ret = "true"

\* C13: a SetupCalculations directly after a SetupCalculations, on a molecule
\* whose atom types all have parameters, leaves the bond, angle, torsion,
\* out-of-plane and van der Waals lists equal (same length, same records,
\* same order) to those the first call left.
C13_SetupIdempotent ==
  (SetupReturned /\ uff.repeat /\ ~ReadsNull(mol, groups)) =>
    \A term \in AllTerms : calcs[term] = uff.before[term]

AllLists == AllTerms \cup {"Electrostatic"}

\* C14: after SetupCalculations has returned, no interaction list, the
\* electrostatic one included, holds a record that a setup call built on an
\* earlier topology: every record was built from the molecule as it is now.
C14_SetupClearsEveryList ==
  SetupReturned =>
    \A l \in AllLists :
      \A i \in 1..Len(calcs[l]) : calcs[l][i].built = uff.topology

Separated(r) == ~IsConnected(mol, r.a, r.b) /\ ~IsOneThree(mol, r.a, r.b)

\* C15: for every molecule and every group configuration, no record of the
\* van der Waals list after SetupCalculations, and none of the electrostatic
\* list after SetupElectrostatics, names two atoms that are bonded (1-2) or
\* that are the two ends of an angle (1-3).
C15_NoBondedOrOneThreePair ==
  /\ SetupReturned => \A i \in 1..Len(calcs.VDW) : Separated(calcs.VDW[i])
  /\ uff.lastOp = "SetupElectrostatics" =>
       \A i \in 1..Len(calcs.Electrostatic) : Separated(calcs.Electrostatic[i])

\* a molecule under group masks, with angles, whose van der Waals list and
\* electrostatic list have both just been built and are not empty
C15_Witness ==
  /\ uff.lastOp = "SetupElectrostatics"
  /\ uff.current
  /\ HasGroups(groups)
  /\ Len(mol.angles) > 0
  /\ Len(calcs.VDW) > 0
  /\ Len(calcs.Electrostatic) > 0
  /\ \A i \in 1..Len(calcs.VDW) : calcs.VDW[i].built = uff.topology

\* C16: when an atom of a bond, angle, torsion or van der Waals pair has a
\* type without a row in the parameter table, SetupCalculations returns
\* false: it does not return true and does not read the missing row.
C16_MissingParameterFails ==
  (uff.lastOp = "SetupCalculations" /\ ReadsNull(mol, groups)) =>
    uff.ret = "false"

\* C17: every record of the out-of-plane list that SetupCalculations builds
\* has a centre with exactly three bonded neighbours.
C17_ExactlyThreeNeighbours ==
  SetupReturned =>
    \A i \in 1..Len(calcs.OOP) : Len(Nbors(mol, calcs.OOP[i].b)) = 3

EnergyOf(gradients) ==
  Energy(m_terms, calcs, geom, gradients, m_gradients).energy

\* C18: on the same positions, lists and enabled terms, Energy(true) and
\* Energy(false) return the same energy, for every geometry: torsions with
\* perpendicular planes and collinear atoms included.
C18_SameEnergyBothModes ==
  (uff.status = "ready" /\ uff.current) => EnergyOf(TRUE) = EnergyOf(FALSE)

Forces(term) == Computed(term, calcs, geom, TRUE)

\* the sum, in the order the records are evaluated, of the forces that the
\* records done[k..] put on atom x, added to acc
RECURSIVE OnAtom(_, _, _, _, _)
OnAtom(x, done, k, j, acc) ==
  IF k > Len(done) THEN acc
  ELSE IF j > Len(done[k].F) THEN OnAtom(x, done, k + 1, 1, acc)
  ELSE OnAtom(x, done, k, j + 1,
              IF done[k].atoms[j] = x THEN FAdd(acc, done[k].F[j]) ELSE acc)

\* the same over the enabled terms from the k-th on
RECURSIVE SumOfTerms(_, _, _)
SumOfTerms(x, k, acc) ==
  IF k > Len(Terms) THEN acc
  ELSE SumOfTerms(x, k + 1,
                  IF Terms[k] \in m_terms
                  THEN OnAtom(x, Forces(Terms[k]), 1, 1, acc) ELSE acc)

\* C19: after Energy(true) the gradient of every atom is the sum of what the
\* records of the enabled terms contribute to that atom at the current
\* positions, starting from zero, whatever the array held before the call.
C19_GradientIsSumOfTerms ==
  uff.lastOp = "Energy(true)" =>
    \A x \in 1..Len(m_gradients) : m_gradients[x] = SumOfTerms(x, 1, Zero)

\* Energy(true) has run on an array that was not zero, with a term disabled,
\* and has left on some atom the sum of the forces of several records
C19_Witness ==
  /\ uff.lastOp = "Energy(true)"
  /\ uff.dirty
  /\ m_terms # AllTerms
  /\ \E x \in 1..Len(m_gradients) :
       /\ m_gradients[x] # Zero
       /\ \E s, t \in m_terms :
            /\ s # t
            /\ \E i \in 1..Len(calcs[s]) : x \in {calcs[s][i].a, calcs[s][i].b}
            /\ \E i \in 1..Len(calcs[t]) : x \in {calcs[t][i].a, calcs[t][i].b}

\* C20: a step that is an Energy(false) call leaves the gradient array, the
\* positions and every interaction list as they were.
C20_ValueLeavesStateAlone ==
  [][uff'.lastOp = "Energy(false)" =>
       (m_gradients' = m_gradients /\ geom' = geom /\ calcs' = calcs)]_vars

\* Energy(false) has returned a non-zero energy while the gradient array
\* holds the non-zero gradient an earlier Energy(true) left
C20_Witness ==
  /\ uff.lastOp = "Energy(false)"
  /\ uff.energy # Zero
  /\ uff.dirty
  /\ \E x \in 1..Len(m_gradients) : m_gradients[x] # Zero

EnergyCalled == uff.lastOp \in {"Energy(true)", "Energy(false)"}

\* the lists with those of the disabled terms emptied
EnabledLists ==
  [l \in DOMAIN calcs |-> IF l \in AllTerms \ m_terms THEN << >> ELSE calcs[l]]

\* the energy of one term: the sum over its records
TermEnergy(term) == SumEnergy(Computed(term, calcs, geom, FALSE), 1, Zero)

RECURSIVE SumOfEnabled(_, _)
SumOfEnabled(k, acc) ==
  IF k > Len(Terms) THEN acc
  ELSE SumOfEnabled(k + 1, IF Terms[k] \in m_terms
                           THEN FAdd(acc, TermEnergy(Terms[k])) ELSE acc)

\* C21: for every subset of enabled terms, Energy returns the sum of the
\* energies of the enabled terms only, and the records of a disabled term
\* change neither the energy nor the gradient array: the call gives what it
\* would give were the lists of the disabled terms empty.
C21_OnlyEnabledTerms ==
  /\ uff.lastOp = "Energy(false)" => uff.energy = SumOfEnabled(1, Zero)
  /\ (uff.status = "ready" /\ uff.current) =>
       \A gradients \in BOOLEAN :
         Energy(m_terms, calcs, geom, gradients, m_gradients) =
           Energy(m_terms, EnabledLists, geom, gradients, m_gradients)

\* Energy has returned a non-zero sum with two terms disabled, one of which
\* has records
C21_Witness ==
  /\ EnergyCalled
  /\ uff.energy # Zero
  /\ Cardinality(AllTerms \ m_terms) = 2
  /\ \E term \in AllTerms \ m_terms :
       Len(calcs[term]) > 0 /\ TermEnergy(term) # Zero

\* C22: the total that Energy returns is the sum of the enabled terms plus
\* the energy of the electrostatic list: nothing while the list is empty,
\* and the electrostatic term once SetupElectrostatics has filled it.
C22_ElectrostaticsInTotal ==
  \A gradients \in BOOLEAN :
    uff.lastOp = (IF gradients THEN "Energy(true)" ELSE "Energy(false)") =>
      uff.energy = FAdd(EnergyOf(gradients),
                        E_Electrostatic(calcs, geom, gradients))

Validated == uff.lastOp = "ValidateGradients"

\* a component of the term exceeds the tolerance: 5 percent for the bond,
\* angle, van der Waals and electrostatic terms, 8 percent for the torsion
ExceedsTolerance(bad) ==
  \/ bad.term \in {"Bond", "Angle", "VDW", "Electrostatic"} /\ bad.level > 5
  \/ bad.term = "Torsion" /\ bad.level > 8

\* C23: ValidateGradients returns false exactly when, on some atom, the
\* relative error exceeds 5 percent for the bond, angle, van der Waals or
\* electrostatic term or 8 percent for the torsion term, and it goes through
\* every atom.
C23_FalseIffOverTolerance ==
  Validated =>
    /\ uff.ret = "false" <=> ExceedsTolerance(uff.bad)
    /\ uff.examined = NumAtoms(mol)

\* C27: a ValidateGradients call leaves the set of enabled terms as it was.
C27_TermsAsFound ==
  [][uff'.lastOp = "ValidateGradients" => m_terms' = m_terms]_vars

\* the hybridization classes of the two central atoms of torsion record r
\* are those of a row of the decision table (both sp2 or sp3)
InTable(r) ==
  \A x \in {r.b, r.c} : Param(mol, x, NULL).ipar \in {2, 3}

Selected(r) == <<r.n, r.V, r.cosNPhi0>>
CentralTypes(r) == <<mol.type[r.b], mol.type[r.c]>>

\* C24: the barrier, periodicity and phase of a torsion record depend only
\* on its own central atoms: a record whose central atoms match no row of
\* the decision table does not hold the values computed for a torsion
\* processed before it in the same call, and two records with the same
\* central atom types hold the same values.
C24_OwnCentralAtomsOnly ==
  (SetupReturned /\ ~ReadsNull(mol, groups)) =>
    /\ \A j \in 1..Len(calcs.Torsion) :
         ~InTable(calcs.Torsion[j]) =>
           \A i \in 1..(j - 1) :
             InTable(calcs.Torsion[i]) =>
               Selected(calcs.Torsion[j]) # Selected(calcs.Torsion[i])
    /\ \A i, j \in 1..Len(calcs.Torsion) :
         CentralTypes(calcs.Torsion[i]) = CentralTypes(calcs.Torsion[j]) =>
           Selected(calcs.Torsion[i]) = Selected(calcs.Torsion[j])

\* C25: after an Initialize with a budget of at least one step the step
\* counter never exceeds the budget, whatever TakeNSteps calls follow.
C25_CounterWithinBudget ==
  (obs.initd # "none" /\ d.nsteps >= 1) => d.cstep <= d.nsteps

\* C26: whenever the minimizer starts a line search, the stored energy e_n1
\* is the energy of the function at the current positions.
C26_StoredEnergyIsCurrent ==
  [][obs'.lsRun = obs.lsRun + 1 => d.e_n1 = value]_vars



\* C28: when a device operation fails inside Compute (the buffer write, the
\* kernel dispatch or the buffer read), nothing from the host buffer is added
\* to the gradient array or to the energy sum.
C28_NothingFromFailedDevice ==
  (electro.lastOp \in {"Compute(Value)", "Compute(Gradients)"}
   /\ electro.fail # "none") =>
    /\ electro.devEnergy = Zero
    /\ \A i \in 1..Len(electro.added) : electro.added[i] = Zero

\* C29: a second Setup on the same molecule leaves the self-pair list and the
\* 1-4 pair list with the size and content they had after the first call.
C29_SetupIdempotent ==
  (electro.lastOp = "Setup" /\ electro.setups >= 2) =>
    /\ electro.selfPairs = electro.before.selfPairs
    /\ electro.oneFourPairs = electro.before.oneFourPairs

\* C30: Compute in Value mode leaves the shared gradient array unchanged.
C30_ValueLeavesGradients ==
  [][electro'.lastOp = "Compute(Value)"
     /\ electro'.computes = electro.computes + 1
     => m_gradients' = m_gradients]_vars

====
